---- MODULE Spec2Model ----
(***************************************************************************)
(* Replay engine of a concentrated-liquidity pool (CorePool) and the NFT   *)
(* position ledger (TokenPositionManager / NFTPositionSimulator).          *)
(*                                                                         *)
(* TLC computes on 32-bit integers, so the fixed-point widths are reduced: *)
(* Q96, Q128, the 128/256-bit word sizes and the tick range are small, and *)
(* the tick -> sqrt-price table is linear.  Every formula keeps the shape  *)
(* and the rounding direction it has in the program; the relative          *)
(* tolerance 0.00001 and the iteration caps 1024 / 1000 of the two copies  *)
(* of HandleSwap are kept as they are, and prices stay above 100000 so     *)
(* that the tolerance distinguishes neighbouring prices.                   *)
(***************************************************************************)
EXTENDS Integers, Sequences, FiniteSets, TLC

VARIABLES variant, pool, ledger, last, ops, events, chain

vars == <<variant, pool, ledger, last, ops, events, chain>>

(***************************** constants **********************************)
MaxTickBound == 1100
MAX_TICK == MaxTickBound
MIN_TICK == -MaxTickBound
Q96 == 8
Q128 == 4096
Uint256Modulus == 1048576
MaxUint128 == 770000
SqrtRatioBase == 120000
SqrtRatioStep == 4
MIN_SQRT_RATIO == SqrtRatioBase + SqrtRatioStep * MIN_TICK
MAX_SQRT_RATIO == SqrtRatioBase + SqrtRatioStep * MAX_TICK
TickSpacing == 2
Fee == 3000
FeeDenominator == 1000000
maxIterations == 1024
maxLoopCount == 1000
EpsilonInverse == 100000

OK == "ok"

(***************************** FixedMath **********************************)
Abs(x) == IF x < 0 THEN -x ELSE x
Max(a, b) == IF a >= b THEN a ELSE b
Min(a, b) == IF a <= b THEN a ELSE b
\* decimal.Div(...).RoundDown(0): the quotient truncated towards zero; the
\* digits Decimal.Div keeps before it are modelled apart, in SpecDivision
RoundDownDiv(a, b) == IF a >= 0 THEN a \div b ELSE -((-a) \div b)
\* the greatest common divisor of two positive numbers
RECURSIVE GCD(_, _)
GCD(a, b) == IF b = 0 THEN a ELSE GCD(b, a % b)

\* floor and ceiling of a * b / d; b and d are reduced by their common divisor
\* first, which changes neither and keeps the product in the machine word
MulDiv(a, b, d) == (a * (b \div GCD(b, d))) \div (d \div GCD(b, d))
MulDivRoundingUp(a, b, d) ==
    (a * (b \div GCD(b, d)) + (d \div GCD(b, d)) - 1) \div (d \div GCD(b, d))
SubMod256(a, b) == (a - b) % Uint256Modulus

GetSqrtRatioAtTick(tick) ==
    IF tick < MIN_TICK \/ tick > MAX_TICK
    THEN [err |-> "TickRangeInvalid", v |-> 0]
    ELSE [err |-> OK, v |-> SqrtRatioBase + SqrtRatioStep * tick]

GetTickAtSqrtRatio(sqrtPriceX96) ==
    IF sqrtPriceX96 < MIN_SQRT_RATIO \/ sqrtPriceX96 >= MAX_SQRT_RATIO
    THEN [err |-> "PriceLimitOutOfRange", v |-> 0]
    ELSE [err |-> OK, v |-> (sqrtPriceX96 - SqrtRatioBase) \div SqrtRatioStep]

\* unsigned amount of token0 between two prices, rounded up or down
amount0Delta(sqrtA, sqrtB, liquidity, roundUp) ==
    LET lo == Min(sqrtA, sqrtB)
        hi == Max(sqrtA, sqrtB)
        numerator1 == liquidity * Q96
        numerator2 == hi - lo
    IN  IF roundUp
        THEN MulDivRoundingUp(MulDivRoundingUp(numerator1, numerator2, hi), 1, lo)
        ELSE MulDiv(numerator1, numerator2, hi) \div lo

amount1Delta(sqrtA, sqrtB, liquidity, roundUp) ==
    LET lo == Min(sqrtA, sqrtB)
        hi == Max(sqrtA, sqrtB)
    IN  IF roundUp
        THEN MulDivRoundingUp(liquidity, hi - lo, Q96)
        ELSE MulDiv(liquidity, hi - lo, Q96)

\* signed variants used by modifyPosition: a mint rounds up, a burn rounds down
GetAmount0Delta(sqrtA, sqrtB, liquidityDelta) ==
    IF sqrtA <= 0 \/ sqrtB <= 0
    THEN [err |-> "ArithmeticOverflow", v |-> 0]
    ELSE IF liquidityDelta < 0
         THEN [err |-> OK, v |-> -amount0Delta(sqrtA, sqrtB, -liquidityDelta, FALSE)]
         ELSE [err |-> OK, v |-> amount0Delta(sqrtA, sqrtB, liquidityDelta, TRUE)]

GetAmount1Delta(sqrtA, sqrtB, liquidityDelta) ==
    IF liquidityDelta < 0
    THEN [err |-> OK, v |-> -amount1Delta(sqrtA, sqrtB, -liquidityDelta, FALSE)]
    ELSE [err |-> OK, v |-> amount1Delta(sqrtA, sqrtB, liquidityDelta, TRUE)]

AddDelta(x, y) ==
    IF x + y < 0 THEN [err |-> "LiquidityUnderflow", v |-> x]
    ELSE IF x + y > MaxUint128 THEN [err |-> "LiquidityOverflow", v |-> x]
    ELSE [err |-> OK, v |-> x + y]

getNextSqrtPriceFromAmount0RoundingUp(sqrtPX96, liquidity, amount, add) ==
    LET numerator1 == liquidity * Q96
        product == amount * sqrtPX96
    IN  IF amount = 0 THEN [err |-> OK, v |-> sqrtPX96]
        ELSE IF add
        THEN [err |-> OK, v |-> MulDivRoundingUp(numerator1, sqrtPX96, numerator1 + product)]
        ELSE IF numerator1 <= product
             THEN [err |-> "ArithmeticOverflow", v |-> 0]
             ELSE [err |-> OK,
                   v |-> MulDivRoundingUp(numerator1, sqrtPX96, numerator1 - product)]

getNextSqrtPriceFromAmount1RoundingDown(sqrtPX96, liquidity, amount, add) ==
    IF add
    THEN [err |-> OK, v |-> sqrtPX96 + MulDiv(amount, Q96, liquidity)]
    ELSE LET quotient == MulDivRoundingUp(amount, Q96, liquidity)
         IN  IF sqrtPX96 <= quotient
             THEN [err |-> "ArithmeticOverflow", v |-> 0]
             ELSE [err |-> OK, v |-> sqrtPX96 - quotient]

getNextSqrtPriceFromInput(sqrtPX96, liquidity, amountIn, zeroForOne) ==
    IF sqrtPX96 <= 0 \/ liquidity <= 0
    THEN [err |-> "ArithmeticOverflow", v |-> 0]
    ELSE IF zeroForOne
         THEN getNextSqrtPriceFromAmount0RoundingUp(sqrtPX96, liquidity, amountIn, TRUE)
         ELSE getNextSqrtPriceFromAmount1RoundingDown(sqrtPX96, liquidity, amountIn, TRUE)

getNextSqrtPriceFromOutput(sqrtPX96, liquidity, amountOut, zeroForOne) ==
    IF sqrtPX96 <= 0 \/ liquidity <= 0
    THEN [err |-> "ArithmeticOverflow", v |-> 0]
    ELSE IF zeroForOne
         THEN getNextSqrtPriceFromAmount1RoundingDown(sqrtPX96, liquidity, amountOut, FALSE)
         ELSE getNextSqrtPriceFromAmount0RoundingUp(sqrtPX96, liquidity, amountOut, FALSE)

\* utils.ComputeSwapStep of the SDK the pool calls for every loop iteration,
\* in stages: the most the step can take in and give out, the price it ends
\* at, the amounts at that price, the fee
StepMaxIn(sqrtRatioCurrentX96, sqrtRatioTargetX96, liquidity) ==
    IF sqrtRatioCurrentX96 >= sqrtRatioTargetX96
    THEN amount0Delta(sqrtRatioTargetX96, sqrtRatioCurrentX96, liquidity, TRUE)
    ELSE amount1Delta(sqrtRatioCurrentX96, sqrtRatioTargetX96, liquidity, TRUE)

StepMaxOut(sqrtRatioCurrentX96, sqrtRatioTargetX96, liquidity) ==
    IF sqrtRatioCurrentX96 >= sqrtRatioTargetX96
    THEN amount1Delta(sqrtRatioTargetX96, sqrtRatioCurrentX96, liquidity, FALSE)
    ELSE amount0Delta(sqrtRatioCurrentX96, sqrtRatioTargetX96, liquidity, FALSE)

\* [err, v]
StepNextPrice(sqrtRatioCurrentX96, sqrtRatioTargetX96, liquidity, amountRemaining, feePips, maxIn, maxOut) ==
    IF amountRemaining >= 0
    THEN IF MulDiv(amountRemaining, FeeDenominator - feePips, FeeDenominator) >= maxIn
         THEN [err |-> OK, v |-> sqrtRatioTargetX96]
         ELSE getNextSqrtPriceFromInput(sqrtRatioCurrentX96, liquidity,
                  MulDiv(amountRemaining, FeeDenominator - feePips, FeeDenominator),
                  sqrtRatioCurrentX96 >= sqrtRatioTargetX96)
    ELSE IF -amountRemaining >= maxOut
         THEN [err |-> OK, v |-> sqrtRatioTargetX96]
         ELSE getNextSqrtPriceFromOutput(sqrtRatioCurrentX96, liquidity, -amountRemaining,
                                         sqrtRatioCurrentX96 >= sqrtRatioTargetX96)

StepAmountIn(sqrtRatioCurrentX96, sqrtRatioTargetX96, liquidity, amountRemaining, maxIn, sqrtRatioNextX96) ==
    IF sqrtRatioTargetX96 = sqrtRatioNextX96 /\ amountRemaining >= 0 THEN maxIn
    ELSE IF sqrtRatioCurrentX96 >= sqrtRatioTargetX96
    THEN amount0Delta(sqrtRatioNextX96, sqrtRatioCurrentX96, liquidity, TRUE)
    ELSE amount1Delta(sqrtRatioCurrentX96, sqrtRatioNextX96, liquidity, TRUE)

StepAmountOut(sqrtRatioCurrentX96, sqrtRatioTargetX96, liquidity, amountRemaining, maxOut, sqrtRatioNextX96) ==
    IF sqrtRatioTargetX96 = sqrtRatioNextX96 /\ amountRemaining < 0 THEN maxOut
    ELSE IF sqrtRatioCurrentX96 >= sqrtRatioTargetX96
    THEN amount1Delta(sqrtRatioNextX96, sqrtRatioCurrentX96, liquidity, FALSE)
    ELSE amount0Delta(sqrtRatioCurrentX96, sqrtRatioNextX96, liquidity, FALSE)

\* the step's result once its amounts are known: an exact-output step never
\* gives more than was asked for, the fee is the rest of an exact input that
\* stopped short of the target and a share of amountIn otherwise
StepAmounts(sqrtRatioTargetX96, amountRemaining, feePips, sqrtRatioNextX96, amountIn, amountOut) ==
    [err |-> OK, sqrtRatioNextX96 |-> sqrtRatioNextX96, amountIn |-> amountIn,
     amountOut |-> IF amountRemaining < 0 /\ amountOut > -amountRemaining
                   THEN -amountRemaining ELSE amountOut,
     feeAmount |-> IF amountRemaining >= 0 /\ sqrtRatioNextX96 # sqrtRatioTargetX96
                   THEN amountRemaining - amountIn
                   ELSE MulDivRoundingUp(amountIn, feePips, FeeDenominator - feePips)]

StepFailed(e, sqrtRatioCurrentX96) ==
    [err |-> e, sqrtRatioNextX96 |-> sqrtRatioCurrentX96,
     amountIn |-> 0, amountOut |-> 0, feeAmount |-> 0]

StepAt(sqrtRatioCurrentX96, sqrtRatioTargetX96, liquidity, amountRemaining, feePips, maxIn, maxOut, next) ==
    IF next.err # OK THEN StepFailed(next.err, sqrtRatioCurrentX96)
    ELSE StepAmounts(sqrtRatioTargetX96, amountRemaining, feePips, next.v,
             StepAmountIn(sqrtRatioCurrentX96, sqrtRatioTargetX96, liquidity,
                          amountRemaining, maxIn, next.v),
             StepAmountOut(sqrtRatioCurrentX96, sqrtRatioTargetX96, liquidity,
                           amountRemaining, maxOut, next.v))

StepWithin(sqrtRatioCurrentX96, sqrtRatioTargetX96, liquidity, amountRemaining, feePips, maxIn, maxOut) ==
    StepAt(sqrtRatioCurrentX96, sqrtRatioTargetX96, liquidity, amountRemaining, feePips,
           maxIn, maxOut,
           StepNextPrice(sqrtRatioCurrentX96, sqrtRatioTargetX96, liquidity,
                         amountRemaining, feePips, maxIn, maxOut))

\* [err, sqrtRatioNextX96, amountIn, amountOut, feeAmount]
ComputeSwapStep(sqrtRatioCurrentX96, sqrtRatioTargetX96, liquidity, amountRemaining, feePips) ==
    IF sqrtRatioCurrentX96 <= 0 \/ sqrtRatioTargetX96 <= 0
    THEN StepFailed("ArithmeticOverflow", sqrtRatioCurrentX96)
    ELSE StepWithin(sqrtRatioCurrentX96, sqrtRatioTargetX96, liquidity, amountRemaining,
                    feePips,
                    StepMaxIn(sqrtRatioCurrentX96, sqrtRatioTargetX96, liquidity),
                    StepMaxOut(sqrtRatioCurrentX96, sqrtRatioTargetX96, liquidity))

(************************* Tick and TickManager ***************************)
NewTick ==
    [LiquidityGross |-> 0, LiquidityNet |-> 0,
     FeeGrowthOutside0X128 |-> 0, FeeGrowthOutside1X128 |-> 0]

\* (2^128 - 1) / number of addressable ticks
TickSpacingToMaxLiquidityPerTick(tickSpacing) ==
    LET minTick == -(((-MIN_TICK) \div tickSpacing) * tickSpacing)
        maxTick == (MAX_TICK \div tickSpacing) * tickSpacing
        numTicks == (maxTick - minTick) \div tickSpacing + 1
    IN  MaxUint128 \div numTicks

MaxLiquidityPerTick == TickSpacingToMaxLiquidityPerTick(TickSpacing)

\* TickManager.GetTickAndInitIfAbsent: the tick map with the tick present
GetTickAndInitIfAbsent(ticks, index) ==
    IF index \in DOMAIN ticks THEN ticks
    ELSE ticks @@ (index :> NewTick)

\* TickManager.Clear
Clear(ticks, index) == [i \in DOMAIN ticks \ {index} |-> ticks[i]]

\* Tick.Update: [err, tick, flipped]
TickUpdate(tick, index, liquidityDelta, tickCurrent, feeGrowthGlobal0X128, feeGrowthGlobal1X128, upper, maxLiquidity) ==
    LET liquidityGrossBefore == tick.LiquidityGross
        after == AddDelta(liquidityGrossBefore, liquidityDelta)
        liquidityGrossAfter == after.v
        seeded == IF liquidityGrossBefore = 0 /\ index <= tickCurrent
                  THEN [tick EXCEPT !.FeeGrowthOutside0X128 = feeGrowthGlobal0X128,
                                    !.FeeGrowthOutside1X128 = feeGrowthGlobal1X128]
                  ELSE tick
    IN  IF after.err # OK
        THEN [err |-> after.err, tick |-> tick, flipped |-> FALSE]
        ELSE IF liquidityGrossAfter > maxLiquidity
        THEN [err |-> "LiquidityOverflow", tick |-> tick, flipped |-> FALSE]
        ELSE [err |-> OK,
              tick |-> [seeded EXCEPT
                          !.LiquidityGross = liquidityGrossAfter,
                          !.LiquidityNet = IF upper THEN @ - liquidityDelta
                                                    ELSE @ + liquidityDelta],
              flipped |-> (liquidityGrossBefore = 0) # (liquidityGrossAfter = 0)]

\* Tick.Cross: the tick with its outside fee growth flipped (mod 2^256)
TickCross(tick, feeGrowthGlobal0X128, feeGrowthGlobal1X128) ==
    [tick EXCEPT
       !.FeeGrowthOutside0X128 = SubMod256(feeGrowthGlobal0X128, @),
       !.FeeGrowthOutside1X128 = SubMod256(feeGrowthGlobal1X128, @)]

\* the result of a tick search that found nothing
NoTick == MIN_TICK - 1

\* some tick of the map lies in lo..hi
HasTick(ticks, lo, hi) ==
    /\ lo <= hi
    /\ IF hi - lo < Cardinality(DOMAIN ticks)
       THEN \E i \in lo..hi : i \in DOMAIN ticks
       ELSE \E i \in DOMAIN ticks : lo <= i /\ i <= hi

\* the largest initialised tick in lo..hi that is a multiple of tickSpacing
RECURSIVE LargestInitialized(_, _, _, _)
LargestInitialized(ticks, lo, hi, tickSpacing) ==
    IF ~HasTick(ticks, lo, hi) THEN NoTick
    ELSE IF lo = hi
    THEN IF lo % tickSpacing = 0 THEN lo ELSE NoTick
    ELSE LET mid == (lo + hi) \div 2
             upper == LargestInitialized(ticks, mid + 1, hi, tickSpacing)
         IN  IF upper # NoTick THEN upper
             ELSE LargestInitialized(ticks, lo, mid, tickSpacing)

\* the smallest initialised tick in lo..hi that is a multiple of tickSpacing
RECURSIVE SmallestInitialized(_, _, _, _)
SmallestInitialized(ticks, lo, hi, tickSpacing) ==
    IF ~HasTick(ticks, lo, hi) THEN NoTick
    ELSE IF lo = hi
    THEN IF lo % tickSpacing = 0 THEN lo ELSE NoTick
    ELSE LET mid == (lo + hi) \div 2
             lower == SmallestInitialized(ticks, lo, mid, tickSpacing)
         IN  IF lower # NoTick THEN lower
             ELSE SmallestInitialized(ticks, mid + 1, hi, tickSpacing)

\* TickManager.GetNextInitializedTick: [tickNext, initialized]
GetNextInitializedTick(ticks, from, tickSpacing, zeroForOne) ==
    LET below == LargestInitialized(ticks, MIN_TICK, from - 1, tickSpacing)
        above == SmallestInitialized(ticks, from + 1, MAX_TICK, tickSpacing)
    IN  IF zeroForOne
        THEN IF below = NoTick THEN [tickNext |-> MIN_TICK, initialized |-> FALSE]
             ELSE [tickNext |-> below, initialized |-> TRUE]
        ELSE IF above = NoTick THEN [tickNext |-> MAX_TICK, initialized |-> FALSE]
             ELSE [tickNext |-> above, initialized |-> TRUE]

\* TickManager.GetFeeGrowthInside: absent boundary ticks count as zero
GetFeeGrowthInside(ticks, tickLower, tickUpper, tickCurrent, feeGrowthGlobal0X128, feeGrowthGlobal1X128) ==
    LET lower == IF tickLower \in DOMAIN ticks THEN ticks[tickLower] ELSE NewTick
        upper == IF tickUpper \in DOMAIN ticks THEN ticks[tickUpper] ELSE NewTick
        below0 == IF tickCurrent >= tickLower THEN lower.FeeGrowthOutside0X128
                  ELSE SubMod256(feeGrowthGlobal0X128, lower.FeeGrowthOutside0X128)
        below1 == IF tickCurrent >= tickLower THEN lower.FeeGrowthOutside1X128
                  ELSE SubMod256(feeGrowthGlobal1X128, lower.FeeGrowthOutside1X128)
        above0 == IF tickCurrent < tickUpper THEN upper.FeeGrowthOutside0X128
                  ELSE SubMod256(feeGrowthGlobal0X128, upper.FeeGrowthOutside0X128)
        above1 == IF tickCurrent < tickUpper THEN upper.FeeGrowthOutside1X128
                  ELSE SubMod256(feeGrowthGlobal1X128, upper.FeeGrowthOutside1X128)
    IN  [fgi0 |-> SubMod256(SubMod256(feeGrowthGlobal0X128, below0), above0),
         fgi1 |-> SubMod256(SubMod256(feeGrowthGlobal1X128, below1), above1)]


(********************** Position and PositionManager **********************)
NewPosition ==
    [Liquidity |-> 0, FeeGrowthInside0LastX128 |-> 0, FeeGrowthInside1LastX128 |-> 0,
     TokensOwed0 |-> 0, TokensOwed1 |-> 0]

GetPositionKey(owner, tickLower, tickUpper) == <<owner, tickLower, tickUpper>>

\* PositionManager.GetPositionAndInitIfAbsent: the store with the position present
GetPositionAndInitIfAbsent(positions, key) ==
    IF key \in DOMAIN positions THEN positions
    ELSE positions @@ (key :> NewPosition)

\* PositionManager.GetPositionReadonly: a view, nothing is stored
GetPositionReadonly(positions, owner, tickLower, tickUpper) ==
    LET key == GetPositionKey(owner, tickLower, tickUpper)
    IN  IF key \in DOMAIN positions THEN positions[key] ELSE NewPosition

\* Position.Update: [err, position]
PositionUpdate(position, liquidityDelta, feeGrowthInside0X128, feeGrowthInside1X128) ==
    LET tokensOwed0 == MulDiv(SubMod256(feeGrowthInside0X128, position.FeeGrowthInside0LastX128),
                              position.Liquidity, Q128)
        tokensOwed1 == MulDiv(SubMod256(feeGrowthInside1X128, position.FeeGrowthInside1LastX128),
                              position.Liquidity, Q128)
        liquidityNext == AddDelta(position.Liquidity, liquidityDelta)
    IN  IF liquidityNext.err # OK
        THEN [err |-> liquidityNext.err, position |-> position]
        ELSE [err |-> OK,
              position |-> [Liquidity |-> liquidityNext.v,
                            FeeGrowthInside0LastX128 |-> feeGrowthInside0X128,
                            FeeGrowthInside1LastX128 |-> feeGrowthInside1X128,
                            TokensOwed0 |-> position.TokensOwed0 + tokensOwed0,
                            TokensOwed1 |-> position.TokensOwed1 + tokensOwed1]]

\* Position.UpdateBurn
UpdateBurn(position, newTokensOwed0, newTokensOwed1) ==
    [position EXCEPT !.TokensOwed0 = newTokensOwed0, !.TokensOwed1 = newTokensOwed1]

\* PositionManager.CollectPosition: [err, positions, amount0, amount1]
CollectPosition(positions, recipient, tickLower, tickUpper, amount0Req, amount1Req) ==
    LET key == GetPositionKey(recipient, tickLower, tickUpper)
    IN  IF key \notin DOMAIN positions
        THEN [err |-> "PositionNotFound", positions |-> positions, amount0 |-> 0, amount1 |-> 0]
        ELSE LET amount0 == Min(amount0Req, positions[key].TokensOwed0)
                 amount1 == Min(amount1Req, positions[key].TokensOwed1)
             IN  [err |-> OK,
                  positions |-> [positions EXCEPT ![key].TokensOwed0 = @ - amount0,
                                                  ![key].TokensOwed1 = @ - amount1],
                  amount0 |-> amount0, amount1 |-> amount1]

(******************************* CorePool *********************************)
EmptyMap == [x \in {} |-> 0]

NewCorePoolFromConfig ==
    [SqrtPriceX96 |-> 0, Liquidity |-> 0, TickCurrent |-> 0,
     FeeGrowthGlobal0X128 |-> 0, FeeGrowthGlobal1X128 |-> 0,
     Ticks |-> EmptyMap, Positions |-> EmptyMap]

\* an Initialize that does not look at the price the pool already has
InitializeAgain(p, sqrtPriceX96) ==
    LET tick == GetTickAtSqrtRatio(sqrtPriceX96)
    IN  IF tick.err # OK
        THEN [err |-> tick.err, pool |-> [p EXCEPT !.TickCurrent = tick.v]]
        ELSE [err |-> OK, pool |-> [p EXCEPT !.TickCurrent = tick.v,
                                             !.SqrtPriceX96 = sqrtPriceX96]]

\* CorePool.Initialize: [err, pool]
Initialize(p, sqrtPriceX96) ==
    LET tick == GetTickAtSqrtRatio(sqrtPriceX96)
    IN  IF p.SqrtPriceX96 # 0 THEN [err |-> "AlreadyInitialized", pool |-> p]
        ELSE IF tick.err # OK
        THEN [err |-> tick.err, pool |-> [p EXCEPT !.TickCurrent = tick.v]]
        ELSE [err |-> OK, pool |-> [p EXCEPT !.TickCurrent = tick.v,
                                             !.SqrtPriceX96 = sqrtPriceX96]]

checkTicks(tickLower, tickUpper) ==
    IF ~(tickLower < tickUpper) THEN "TickRangeInvalid"
    ELSE IF ~(tickLower >= MIN_TICK) THEN "TickRangeInvalid"
    ELSE IF ~(tickUpper <= MAX_TICK) THEN "TickRangeInvalid"
    ELSE OK

\* CorePool.updatePosition: [err, pool], in the order of the code: the
\* position entry, the lower tick, the upper tick, the fee growth inside, the
\* position, the cleared ticks.  A failing stage returns the pool with what
\* the earlier stages wrote.
ClearFlipped(ticks, lower, upper, delta, flippedLower, flippedUpper) ==
    IF delta < 0
    THEN [i \in DOMAIN ticks \ ((IF flippedLower THEN {lower} ELSE {})
                                 \cup (IF flippedUpper THEN {upper} ELSE {})) |-> ticks[i]]
    ELSE ticks

updatePositionFees(p, key, lower, upper, delta, flippedLower, flippedUpper, fi) ==
    LET upd == PositionUpdate(p.Positions[key], delta, fi.fgi0, fi.fgi1)
    IN  IF upd.err # OK THEN [err |-> upd.err, pool |-> p]
        ELSE [err |-> OK,
              pool |-> [p EXCEPT !.Positions[key] = upd.position,
                                 !.Ticks = ClearFlipped(@, lower, upper, delta,
                                                        flippedLower, flippedUpper)]]

updatePositionTicked(p, key, lower, upper, delta, flippedLower, flippedUpper) ==
    updatePositionFees(p, key, lower, upper, delta, flippedLower, flippedUpper,
        GetFeeGrowthInside(p.Ticks, lower, upper, p.TickCurrent,
                           p.FeeGrowthGlobal0X128, p.FeeGrowthGlobal1X128))

updateUpperTick(p, key, lower, upper, delta, flippedLower) ==
    LET ticks == GetTickAndInitIfAbsent(p.Ticks, upper)
        up == TickUpdate(ticks[upper], upper, delta, p.TickCurrent,
                         p.FeeGrowthGlobal0X128, p.FeeGrowthGlobal1X128,
                         TRUE, MaxLiquidityPerTick)
    IN  IF up.err # OK THEN [err |-> up.err, pool |-> [p EXCEPT !.Ticks = ticks]]
        ELSE updatePositionTicked([p EXCEPT !.Ticks = [ticks EXCEPT ![upper] = up.tick]],
                                  key, lower, upper, delta, flippedLower, up.flipped)

updateLowerTick(p, key, lower, upper, delta) ==
    LET ticks == GetTickAndInitIfAbsent(p.Ticks, lower)
        up == TickUpdate(ticks[lower], lower, delta, p.TickCurrent,
                         p.FeeGrowthGlobal0X128, p.FeeGrowthGlobal1X128,
                         FALSE, MaxLiquidityPerTick)
    IN  IF up.err # OK THEN [err |-> up.err, pool |-> [p EXCEPT !.Ticks = ticks]]
        ELSE updateUpperTick([p EXCEPT !.Ticks = [ticks EXCEPT ![lower] = up.tick]],
                             key, lower, upper, delta, up.flipped)

updatePositionStored(p, key, lower, upper, delta) ==
    IF delta # 0 THEN updateLowerTick(p, key, lower, upper, delta)
    ELSE updatePositionTicked(p, key, lower, upper, delta, FALSE, FALSE)

updatePosition(p, owner, lower, upper, delta) ==
    updatePositionStored(
        [p EXCEPT !.Positions =
             GetPositionAndInitIfAbsent(@, GetPositionKey(owner, lower, upper))],
        GetPositionKey(owner, lower, upper), lower, upper, delta)

\* a modifyPosition that leaves the liquidity test to the position's update
modifyPositionUnguarded(p, owner, tickLower, tickUpper, liquidityDelta) ==
    IF checkTicks(tickLower, tickUpper) # OK
    THEN [err |-> checkTicks(tickLower, tickUpper), pool |-> p,
          key |-> GetPositionKey(owner, tickLower, tickUpper), amount0 |-> 0, amount1 |-> 0]
    ELSE LET up == updatePosition(p, owner, tickLower, tickUpper, liquidityDelta)
         IN  [err |-> IF up.err # OK THEN "LiquidityUnderflow" ELSE OK, pool |-> up.pool,
              key |-> GetPositionKey(owner, tickLower, tickUpper),
              amount0 |-> 0, amount1 |-> 0]

\* CorePool.modifyPosition: [err, pool, key, amount0, amount1]
ModifyFailed(e, p, key) ==
    [err |-> e, pool |-> p, key |-> key, amount0 |-> 0, amount1 |-> 0]

\* token amounts that are always those of a range holding the current tick
modifyPositionAmountsInRange(q, key, tickLower, tickUpper, liquidityDelta) ==
    LET sqrtLower == GetSqrtRatioAtTick(tickLower).v
        sqrtUpper == GetSqrtRatioAtTick(tickUpper).v
        a0 == GetAmount0Delta(Min(Max(q.SqrtPriceX96, sqrtLower), sqrtUpper), sqrtUpper,
                              liquidityDelta)
        a1 == GetAmount1Delta(sqrtLower, Min(Max(q.SqrtPriceX96, sqrtLower), sqrtUpper),
                              liquidityDelta)
        liq == AddDelta(q.Liquidity, liquidityDelta)
    IN  IF liquidityDelta = 0
        THEN [err |-> OK, pool |-> q, key |-> key, amount0 |-> 0, amount1 |-> 0]
        ELSE IF a0.err # OK THEN [err |-> a0.err, pool |-> q, key |-> key, amount0 |-> 0, amount1 |-> 0]
        ELSE IF a1.err # OK THEN [err |-> a1.err, pool |-> q, key |-> key, amount0 |-> 0, amount1 |-> 0]
        ELSE IF liq.err # OK THEN [err |-> liq.err, pool |-> q, key |-> key, amount0 |-> 0, amount1 |-> 0]
        ELSE [err |-> OK, pool |-> [q EXCEPT !.Liquidity = liq.v], key |-> key,
              amount0 |-> a0.v, amount1 |-> a1.v]

\* the token amounts of a liquidity change, and the pool's liquidity when the
\* range holds the current tick
modifyPositionAmounts(q, key, tickLower, tickUpper, liquidityDelta) ==
    LET sqrtLower == GetSqrtRatioAtTick(tickLower).v
        sqrtUpper == GetSqrtRatioAtTick(tickUpper).v
    IN  IF liquidityDelta = 0
        THEN [err |-> OK, pool |-> q, key |-> key, amount0 |-> 0, amount1 |-> 0]
        ELSE IF q.TickCurrent < tickLower
        THEN LET a0 == GetAmount0Delta(sqrtLower, sqrtUpper, liquidityDelta)
             IN  IF a0.err # OK THEN ModifyFailed(a0.err, q, key)
                 ELSE [err |-> OK, pool |-> q, key |-> key, amount0 |-> a0.v, amount1 |-> 0]
        ELSE IF q.TickCurrent < tickUpper
        THEN LET a0 == GetAmount0Delta(q.SqrtPriceX96, sqrtUpper, liquidityDelta)
                 a1 == GetAmount1Delta(sqrtLower, q.SqrtPriceX96, liquidityDelta)
                 liq == AddDelta(q.Liquidity, liquidityDelta)
             IN  IF a0.err # OK THEN ModifyFailed(a0.err, q, key)
                 ELSE IF a1.err # OK THEN ModifyFailed(a1.err, q, key)
                 ELSE IF liq.err # OK THEN ModifyFailed(liq.err, q, key)
                 ELSE [err |-> OK, pool |-> [q EXCEPT !.Liquidity = liq.v], key |-> key,
                       amount0 |-> a0.v, amount1 |-> a1.v]
        ELSE LET a1 == GetAmount1Delta(sqrtLower, sqrtUpper, liquidityDelta)
             IN  IF a1.err # OK THEN ModifyFailed(a1.err, q, key)
                 ELSE [err |-> OK, pool |-> q, key |-> key, amount0 |-> 0, amount1 |-> a1.v]

modifyPositionUpdated(up, key, tickLower, tickUpper, liquidityDelta) ==
    IF up.err # OK THEN ModifyFailed(up.err, up.pool, key)
    ELSE modifyPositionAmounts(up.pool, key, tickLower, tickUpper, liquidityDelta)

modifyPosition(p, owner, tickLower, tickUpper, liquidityDelta) ==
    IF checkTicks(tickLower, tickUpper) # OK
    THEN ModifyFailed(checkTicks(tickLower, tickUpper), p,
                      GetPositionKey(owner, tickLower, tickUpper))
    ELSE IF liquidityDelta < 0
            /\ ~(GetPositionReadonly(p.Positions, owner, tickLower, tickUpper).Liquidity
                   >= -liquidityDelta)
    THEN ModifyFailed("LiquidityUnderflow", p, GetPositionKey(owner, tickLower, tickUpper))
    ELSE modifyPositionUpdated(updatePosition(p, owner, tickLower, tickUpper, liquidityDelta),
                               GetPositionKey(owner, tickLower, tickUpper),
                               tickLower, tickUpper, liquidityDelta)

\* CorePool.Mint: [err, pool, amount0, amount1]
MintResult(m) ==
    IF m.err # OK THEN [err |-> m.err, pool |-> m.pool, amount0 |-> 0, amount1 |-> 0]
    ELSE [err |-> OK, pool |-> m.pool, amount0 |-> m.amount0, amount1 |-> m.amount1]

\* a Mint that takes any amount
MintAnyAmount(p, recipient, tickLower, tickUpper, amount) ==
    MintResult(modifyPosition(p, recipient, tickLower, tickUpper, amount))

Mint(p, recipient, tickLower, tickUpper, amount) ==
    IF ~(amount > 0)
    THEN [err |-> "MintAmountNotPositive", pool |-> p, amount0 |-> 0, amount1 |-> 0]
    ELSE MintResult(modifyPosition(p, recipient, tickLower, tickUpper, amount))

\* a Burn that credits the position twice with what it burned
BurnResultTwice(m) ==
    IF m.err # OK THEN [err |-> m.err, pool |-> m.pool, amount0 |-> 0, amount1 |-> 0]
    ELSE [err |-> OK,
          pool |-> [m.pool EXCEPT !.Positions[m.key] =
                       UpdateBurn(@, @.TokensOwed0 + 2 * (-m.amount0),
                                  @.TokensOwed1 + 2 * (-m.amount1))],
          amount0 |-> -m.amount0, amount1 |-> -m.amount1]

\* CorePool.Burn: [err, pool, amount0, amount1]
BurnResult(m) ==
    IF m.err # OK THEN [err |-> m.err, pool |-> m.pool, amount0 |-> 0, amount1 |-> 0]
    ELSE IF -m.amount0 > 0 \/ -m.amount1 > 0
    THEN [err |-> OK,
          pool |-> [m.pool EXCEPT !.Positions[m.key] =
                       UpdateBurn(@, @.TokensOwed0 + (-m.amount0),
                                  @.TokensOwed1 + (-m.amount1))],
          amount0 |-> -m.amount0, amount1 |-> -m.amount1]
    ELSE [err |-> OK, pool |-> m.pool, amount0 |-> -m.amount0, amount1 |-> -m.amount1]

\* a Burn that takes nothing from the position
BurnNothing(p, owner, tickLower, tickUpper, amount) ==
    BurnResult(modifyPosition(p, owner, tickLower, tickUpper, 0))

Burn(p, owner, tickLower, tickUpper, amount) ==
    BurnResult(modifyPosition(p, owner, tickLower, tickUpper, -amount))

\* CorePool.Collect: [err, pool, amount0, amount1]
CollectResult(p, c) ==
    [err |-> c.err, pool |-> [p EXCEPT !.Positions = c.positions],
     amount0 |-> c.amount0, amount1 |-> c.amount1]

Collect(p, recipient, tickLower, tickUpper, amount0Req, amount1Req) ==
    IF checkTicks(tickLower, tickUpper) # OK
    THEN [err |-> checkTicks(tickLower, tickUpper), pool |-> p,
          amount0 |-> 0, amount1 |-> 0]
    ELSE CollectResult(p, CollectPosition(p.Positions, recipient, tickLower, tickUpper,
                                          amount0Req, amount1Req))


(****************************** HandleSwap ********************************)
\* a nil optionalSqrtPriceLimitX96
NoLimit == -1

\* the price limit the swap runs with
EffectiveLimit(zeroForOne, optionalSqrtPriceLimitX96) ==
    IF optionalSqrtPriceLimitX96 = NoLimit
    THEN IF zeroForOne THEN MIN_SQRT_RATIO + 1 ELSE MAX_SQRT_RATIO - 1
    ELSE optionalSqrtPriceLimitX96

\* a validation that looks at the allowed range only, not at the current price
checkPriceLimitRangeOnly(p, zeroForOne, sqrtPriceLimitX96) ==
    IF zeroForOne
    THEN IF ~(sqrtPriceLimitX96 > MIN_SQRT_RATIO) THEN "PriceLimitOutOfRange" ELSE OK
    ELSE IF ~(sqrtPriceLimitX96 < MAX_SQRT_RATIO) THEN "PriceLimitOutOfRange" ELSE OK

checkPriceLimit(p, zeroForOne, sqrtPriceLimitX96) ==
    IF zeroForOne
    THEN IF ~(sqrtPriceLimitX96 > MIN_SQRT_RATIO) THEN "PriceLimitOutOfRange"
         ELSE IF ~(sqrtPriceLimitX96 < p.SqrtPriceX96) THEN "PriceLimitWrongSide"
         ELSE OK
    ELSE IF ~(sqrtPriceLimitX96 < MAX_SQRT_RATIO) THEN "PriceLimitOutOfRange"
         ELSE IF ~(sqrtPriceLimitX96 > p.SqrtPriceX96) THEN "PriceLimitWrongSide"
         ELSE OK

\* swapState, with the tick map the loop works on and the loop's bookkeeping
NewSwapState(p, zeroForOne, amountSpecified) ==
    [amountSpecifiedRemaining |-> amountSpecified,
     amountCalculated |-> 0,
     sqrtPriceX96 |-> p.SqrtPriceX96,
     tick |-> p.TickCurrent,
     liquidity |-> p.Liquidity,
     feeGrowthGlobalX128 |-> IF zeroForOne THEN p.FeeGrowthGlobal0X128
                                           ELSE p.FeeGrowthGlobal1X128,
     ticks |-> p.Ticks,
     iterationCount |-> 0,
     steps |-> 0,
     crossings |-> 0,
     status |-> "run",
     err |-> OK]

\* the target price of one step
StepTarget(zeroForOne, sqrtPriceNextX96, sqrtPriceLimitX96) ==
    IF zeroForOne
    THEN IF sqrtPriceNextX96 < sqrtPriceLimitX96 THEN sqrtPriceLimitX96 ELSE sqrtPriceNextX96
    ELSE IF sqrtPriceNextX96 > sqrtPriceLimitX96 THEN sqrtPriceLimitX96 ELSE sqrtPriceNextX96

\* a faulty crossing that writes the tick also in a static swap
CrossedTicksAlways(p, ticks, tickNext, zeroForOne, feeGrowthGlobalX128, isStatic) ==
    IF zeroForOne
    THEN [ticks EXCEPT ![tickNext] = TickCross(@, feeGrowthGlobalX128, p.FeeGrowthGlobal1X128)]
    ELSE [ticks EXCEPT ![tickNext] = TickCross(@, p.FeeGrowthGlobal0X128, feeGrowthGlobalX128)]

\* a faulty crossing that flips the tick against the pool's stored fee growth,
\* without the fees of the running swap
CrossedTicksStored(p, ticks, tickNext, zeroForOne, feeGrowthGlobalX128, isStatic) ==
    IF isStatic THEN ticks
    ELSE [ticks EXCEPT ![tickNext] = TickCross(@, p.FeeGrowthGlobal0X128, p.FeeGrowthGlobal1X128)]

\* the tick map after the step reached an initialised tick
CrossedTicks(p, ticks, tickNext, zeroForOne, feeGrowthGlobalX128, isStatic) ==
    IF isStatic THEN ticks
    ELSE IF zeroForOne
    THEN [ticks EXCEPT ![tickNext] = TickCross(@, feeGrowthGlobalX128, p.FeeGrowthGlobal1X128)]
    ELSE [ticks EXCEPT ![tickNext] = TickCross(@, p.FeeGrowthGlobal0X128, feeGrowthGlobalX128)]

\* a faulty tick update that recomputes nothing when the step stops short of
\* the next tick
StepTickStale(tick, tickNext, zeroForOne, sqrtPriceX96, sqrtPriceNextX96, sqrtPriceStartX96) ==
    IF sqrtPriceX96 = sqrtPriceNextX96
    THEN [err |-> OK, v |-> IF zeroForOne THEN tickNext - 1 ELSE tickNext]
    ELSE [err |-> OK, v |-> tick]

\* the tick of the state after a step that ended at sqrtPriceX96
StepTick(tick, tickNext, zeroForOne, sqrtPriceX96, sqrtPriceNextX96, sqrtPriceStartX96) ==
    IF sqrtPriceX96 = sqrtPriceNextX96
    THEN [err |-> OK, v |-> IF zeroForOne THEN tickNext - 1 ELSE tickNext]
    ELSE IF sqrtPriceX96 # sqrtPriceStartX96
    THEN GetTickAtSqrtRatio(sqrtPriceX96)
    ELSE [err |-> OK, v |-> tick]

\* the body of the swap loop, after the loop's exit tests, in the order of the
\* code: next tick, its price, the step, the amounts and the fee growth, the
\* crossing, the tick.  A failing stage keeps the ticks crossed so far.
SwapFailed(st, e) == [st EXCEPT !.status = "err", !.err = e]

ClampTick(tickNext) ==
    IF tickNext < MIN_TICK THEN MIN_TICK
    ELSE IF tickNext > MAX_TICK THEN MAX_TICK ELSE tickNext

SwapStepDone(st, tick) ==
    IF tick.err # OK THEN SwapFailed(st, tick.err) ELSE [st EXCEPT !.tick = tick.v]

SwapStepTick(st, tickNext, zeroForOne, sqrtPriceNextX96, sqrtPriceStartX96) ==
    SwapStepDone(st, StepTick(st.tick, tickNext, zeroForOne, st.sqrtPriceX96,
                              sqrtPriceNextX96, sqrtPriceStartX96))

SwapStepCrossed(st, liquidity, tickNext, zeroForOne, sqrtPriceNextX96, sqrtPriceStartX96) ==
    IF liquidity.err # OK THEN SwapFailed(st, liquidity.err)
    ELSE SwapStepTick([st EXCEPT !.liquidity = liquidity.v], tickNext, zeroForOne,
                      sqrtPriceNextX96, sqrtPriceStartX96)

\* a crossing that adds the tick's liquidityNet whatever the direction
SwapStepCrossUnsigned(p, st, zeroForOne, isStatic, tickNext, initialized, sqrtPriceNextX96, sqrtPriceStartX96) ==
    IF st.sqrtPriceX96 = sqrtPriceNextX96 /\ initialized
    THEN SwapStepCrossed(
             [st EXCEPT !.ticks = CrossedTicks(p, @, tickNext, zeroForOne,
                                               st.feeGrowthGlobalX128, isStatic),
                        !.crossings = @ + 1],
             AddDelta(st.liquidity, st.ticks[tickNext].LiquidityNet),
             tickNext, zeroForOne, sqrtPriceNextX96, sqrtPriceStartX96)
    ELSE SwapStepTick(st, tickNext, zeroForOne, sqrtPriceNextX96, sqrtPriceStartX96)

SwapStepCross(p, st, zeroForOne, isStatic, tickNext, initialized, sqrtPriceNextX96, sqrtPriceStartX96) ==
    IF st.sqrtPriceX96 = sqrtPriceNextX96 /\ initialized
    THEN SwapStepCrossed(
             [st EXCEPT !.ticks = CrossedTicks(p, @, tickNext, zeroForOne,
                                               st.feeGrowthGlobalX128, isStatic),
                        !.crossings = @ + 1],
             AddDelta(st.liquidity, IF zeroForOne THEN -st.ticks[tickNext].LiquidityNet
                                    ELSE st.ticks[tickNext].LiquidityNet),
             tickNext, zeroForOne, sqrtPriceNextX96, sqrtPriceStartX96)
    ELSE SwapStepTick(st, tickNext, zeroForOne, sqrtPriceNextX96, sqrtPriceStartX96)

SwapStepComputed(p, st, zeroForOne, exactInput, isStatic, tickNext, initialized, sqrtPriceNextX96, cs) ==
    IF cs.err # OK THEN SwapFailed(st, cs.err)
    ELSE SwapStepCross(p,
             [st EXCEPT !.sqrtPriceX96 = cs.sqrtRatioNextX96,
                        !.amountSpecifiedRemaining =
                            IF exactInput THEN @ - (cs.amountIn + cs.feeAmount)
                            ELSE @ + cs.amountOut,
                        !.amountCalculated =
                            IF exactInput THEN @ - cs.amountOut
                            ELSE @ + (cs.amountIn + cs.feeAmount),
                        !.feeGrowthGlobalX128 =
                            IF st.liquidity > 0
                            THEN @ + RoundDownDiv(cs.feeAmount * Q128, st.liquidity)
                            ELSE @,
                        !.steps = @ + 1],
             zeroForOne, isStatic, tickNext, initialized, sqrtPriceNextX96,
             st.sqrtPriceX96)

SwapStepTo(p, st, zeroForOne, sqrtPriceLimitX96, exactInput, isStatic, tickNext, initialized, sqrtPriceNextX96) ==
    IF sqrtPriceNextX96.err # OK THEN SwapFailed(st, sqrtPriceNextX96.err)
    ELSE SwapStepComputed(p, st, zeroForOne, exactInput, isStatic, tickNext, initialized,
             sqrtPriceNextX96.v,
             ComputeSwapStep(st.sqrtPriceX96,
                             StepTarget(zeroForOne, sqrtPriceNextX96.v, sqrtPriceLimitX96),
                             st.liquidity, st.amountSpecifiedRemaining, Fee))

SwapStepAt(p, st, zeroForOne, sqrtPriceLimitX96, exactInput, isStatic, tickNext, initialized) ==
    SwapStepTo(p, st, zeroForOne, sqrtPriceLimitX96, exactInput, isStatic, tickNext,
               initialized, GetSqrtRatioAtTick(tickNext))

SwapStepNext(p, st, zeroForOne, sqrtPriceLimitX96, exactInput, isStatic, nxt) ==
    SwapStepAt(p, st, zeroForOne, sqrtPriceLimitX96, exactInput, isStatic,
               ClampTick(nxt.tickNext), nxt.initialized)

SwapStep(p, st, zeroForOne, sqrtPriceLimitX96, exactInput, isStatic) ==
    SwapStepNext(p, st, zeroForOne, sqrtPriceLimitX96, exactInput, isStatic,
                 GetNextInitializedTick(st.ticks, st.tick, TickSpacing, zeroForOne))


\* the loop's exit test of the first copy: a tolerance on amount and price;
\* on integers x / m <= 1 / EpsilonInverse is x <= m \div EpsilonInverse
amountIsZero(st) == Abs(st.amountSpecifiedRemaining) <= 1 \div EpsilonInverse

priceReached(st, sqrtPriceLimitX96) ==
    Abs(st.sqrtPriceX96 - sqrtPriceLimitX96)
        <= Max(st.sqrtPriceX96, sqrtPriceLimitX96) \div EpsilonInverse

\* one pass of the first copy's for-loop: count, cap (break), tolerance (break), step
LoopTolerant(p, st, zeroForOne, sqrtPriceLimitX96, exactInput, isStatic) ==
    IF st.status # "run" THEN st
    ELSE IF st.iterationCount + 1 > maxIterations
    THEN [st EXCEPT !.iterationCount = @ + 1, !.status = "capped"]
    ELSE IF amountIsZero(st) \/ priceReached(st, sqrtPriceLimitX96)
    THEN [st EXCEPT !.iterationCount = @ + 1, !.status = "exit"]
    ELSE SwapStep(p, [st EXCEPT !.iterationCount = @ + 1], zeroForOne,
                  sqrtPriceLimitX96, exactInput, isStatic)

\* one pass of the second copy's for-loop: exact guard, count, cap (error), step
LoopExact(p, st, zeroForOne, sqrtPriceLimitX96, exactInput, isStatic) ==
    IF st.status # "run" THEN st
    ELSE IF st.amountSpecifiedRemaining = 0 \/ st.sqrtPriceX96 = sqrtPriceLimitX96
    THEN [st EXCEPT !.status = "exit"]
    ELSE IF st.iterationCount + 1 > maxLoopCount
    THEN [st EXCEPT !.iterationCount = @ + 1, !.status = "err",
                    !.err = "SwapNonTerminating"]
    ELSE SwapStep(p, [st EXCEPT !.iterationCount = @ + 1], zeroForOne,
                  sqrtPriceLimitX96, exactInput, isStatic)

LoopPass(copy, p, st, zeroForOne, sqrtPriceLimitX96, exactInput, isStatic) ==
    IF copy = "tolerant"
    THEN LoopTolerant(p, st, zeroForOne, sqrtPriceLimitX96, exactInput, isStatic)
    ELSE LoopExact(p, st, zeroForOne, sqrtPriceLimitX96, exactInput, isStatic)

\* n passes of the loop, computed by halving so that the evaluation stays shallow
RECURSIVE RunLoop(_, _, _, _, _, _, _, _)
RECURSIVE RunRest(_, _, _, _, _, _, _, _)
RunRest(copy, p, half, zeroForOne, sqrtPriceLimitX96, exactInput, isStatic, n) ==
    IF half.status = "run"
    THEN RunLoop(copy, p, half, zeroForOne, sqrtPriceLimitX96, exactInput, isStatic, n)
    ELSE half

RunLoop(copy, p, st, zeroForOne, sqrtPriceLimitX96, exactInput, isStatic, n) ==
    IF st.status # "run" \/ n <= 0 THEN st
    ELSE IF n = 1
    THEN LoopPass(copy, p, st, zeroForOne, sqrtPriceLimitX96, exactInput, isStatic)
    ELSE RunRest(copy, p,
                 RunLoop(copy, p, st, zeroForOne, sqrtPriceLimitX96, exactInput,
                         isStatic, n \div 2),
                 zeroForOne, sqrtPriceLimitX96, exactInput, isStatic, n - (n \div 2))

\* no run of the loop makes more passes than this
MaxPasses == Max(maxIterations, maxLoopCount) + 2

\* the commit with the two fee-growth accumulators exchanged
CommitSwapExchanged(p, st, zeroForOne, isStatic) ==
    IF isStatic THEN [p EXCEPT !.Ticks = st.ticks]
    ELSE [p EXCEPT !.SqrtPriceX96 = st.sqrtPriceX96,
                   !.TickCurrent = st.tick,
                   !.Liquidity = st.liquidity,
                   !.FeeGrowthGlobal0X128 = IF zeroForOne THEN @ ELSE st.feeGrowthGlobalX128,
                   !.FeeGrowthGlobal1X128 = IF zeroForOne THEN st.feeGrowthGlobalX128 ELSE @,
                   !.Ticks = st.ticks]

\* the pool after the loop: the state is committed unless the swap is static
CommitSwap(p, st, zeroForOne, isStatic) ==
    IF isStatic THEN [p EXCEPT !.Ticks = st.ticks]
    ELSE [p EXCEPT !.SqrtPriceX96 = st.sqrtPriceX96,
                   !.TickCurrent = st.tick,
                   !.Liquidity = st.liquidity,
                   !.FeeGrowthGlobal0X128 = IF zeroForOne THEN st.feeGrowthGlobalX128 ELSE @,
                   !.FeeGrowthGlobal1X128 = IF zeroForOne THEN @ ELSE st.feeGrowthGlobalX128,
                   !.Ticks = st.ticks]

\* CorePool.HandleSwap of either copy:
\* [err, pool, amount0, amount1, sqrtPriceX96], the limit it ran with and the
\* loop's final state
SwapResult(p, st, zeroForOne, amountSpecified, sqrtPriceLimitX96, isStatic) ==
    IF st.status = "err"
    THEN [err |-> st.err, pool |-> [p EXCEPT !.Ticks = st.ticks],
          amount0 |-> 0, amount1 |-> 0, sqrtPriceX96 |-> 0,
          limit |-> sqrtPriceLimitX96, state |-> st]
    ELSE [err |-> OK, pool |-> CommitSwap(p, st, zeroForOne, isStatic),
          amount0 |-> IF zeroForOne = (amountSpecified >= 0)
                      THEN amountSpecified - st.amountSpecifiedRemaining
                      ELSE st.amountCalculated,
          amount1 |-> IF zeroForOne = (amountSpecified >= 0)
                      THEN st.amountCalculated
                      ELSE amountSpecified - st.amountSpecifiedRemaining,
          sqrtPriceX96 |-> st.sqrtPriceX96,
          limit |-> sqrtPriceLimitX96, state |-> st]

HandleSwapWithLimit(copy, p, zeroForOne, amountSpecified, sqrtPriceLimitX96, isStatic) ==
    IF checkPriceLimit(p, zeroForOne, sqrtPriceLimitX96) # OK
    THEN [err |-> checkPriceLimit(p, zeroForOne, sqrtPriceLimitX96), pool |-> p,
          amount0 |-> 0, amount1 |-> 0, sqrtPriceX96 |-> 0,
          limit |-> sqrtPriceLimitX96,
          state |-> NewSwapState(p, zeroForOne, amountSpecified)]
    ELSE SwapResult(p,
             RunLoop(copy, p, NewSwapState(p, zeroForOne, amountSpecified), zeroForOne,
                     sqrtPriceLimitX96, amountSpecified >= 0, isStatic, MaxPasses),
             zeroForOne, amountSpecified, sqrtPriceLimitX96, isStatic)

HandleSwap(copy, p, zeroForOne, amountSpecified, optionalSqrtPriceLimitX96, isStatic) ==
    HandleSwapWithLimit(copy, p, zeroForOne, amountSpecified,
                        EffectiveLimit(zeroForOne, optionalSqrtPriceLimitX96), isStatic)


(************************* the swap resolver ******************************)
\* UniV3SwapEvent: what a Swap log of the pool carries
UniV3SwapEvent(amount0, amount1, sqrtPriceX96, liquidity) ==
    [Amount0 |-> amount0, Amount1 |-> amount1, SqrtPriceX96 |-> sqrtPriceX96,
     Liquidity |-> liquidity]

SwapSolution(amountSpecified, sqrtPriceLimitX96) ==
    [AmountSpecified |-> amountSpecified, SqrtPriceLimitX96 |-> sqrtPriceLimitX96]

incTowardsInfinity(d) == IF d = 0 THEN d ELSE IF d > 0 THEN d + 1 ELSE d - 1

\* the result of a resolver: [err, AmountSpecified, SqrtPriceLimitX96, pool]
Resolved(solution, p) ==
    [err |-> OK, AmountSpecified |-> solution.AmountSpecified,
     SqrtPriceLimitX96 |-> solution.SqrtPriceLimitX96, pool |-> p]

Unresolved(p) ==
    [err |-> "SwapUnresolvable", AmountSpecified |-> 0, SqrtPriceLimitX96 |-> NoLimit,
     pool |-> p]

\* the dry run of a candidate: a static swap in the direction of the event
DryRun(copy, p, param, solution) ==
    HandleSwap(copy, p, param.Amount0 > 0, solution.AmountSpecified,
               solution.SqrtPriceLimitX96, TRUE)

\* the test of tryToDryRun on the dry run's result: all three values are equal
dryRunMatches(r, param) ==
    /\ r.err = OK
    /\ r.amount0 = param.Amount0
    /\ r.amount1 = param.Amount1
    /\ r.sqrtPriceX96 = param.SqrtPriceX96

\* the candidates of the second copy, in the order it tries them
LimitedSolutions(param) ==
    IF param.Liquidity = 0
    THEN <<SwapSolution(incTowardsInfinity(param.Amount0), param.SqrtPriceX96),
           SwapSolution(incTowardsInfinity(param.Amount1), param.SqrtPriceX96)>>
    ELSE <<SwapSolution(param.Amount0, param.SqrtPriceX96),
           SwapSolution(param.Amount1, param.SqrtPriceX96)>>

MinusOneSolutions(param) ==
    IF param.Liquidity = -1
    THEN <<SwapSolution(param.Amount0, param.SqrtPriceX96),
           SwapSolution(param.Amount1, param.SqrtPriceX96)>>
    ELSE <<>>

ExactSolutionList(p, param) ==
    <<SwapSolution(param.Amount0, NoLimit), SwapSolution(param.Amount1, NoLimit)>>
        \o (IF param.SqrtPriceX96 # p.SqrtPriceX96
            THEN MinusOneSolutions(param) \o LimitedSolutions(param)
            ELSE <<>>)

\* the loop of the second copy over its candidates, from the i-th on
RECURSIVE TryExact(_, _, _, _)
TryExactNext(p, param, solutionList, i, r) ==
    IF dryRunMatches(r, param) THEN Resolved(solutionList[i], r.pool)
    ELSE TryExact(r.pool, param, solutionList, i + 1)

TryExact(p, param, solutionList, i) ==
    IF i > Len(solutionList) THEN Unresolved(p)
    ELSE TryExactNext(p, param, solutionList, i, DryRun("exact", p, param, solutionList[i]))

\* the amounts of the pool are whole numbers: a product with a decimal factor
\* of thousandths keeps its whole part
MulThousandths(amount, thousandths) == RoundDownDiv(amount * thousandths, 1000)

\* the candidates of the first copy, in the order it tries them
BaseSolutions(param) ==
    <<SwapSolution(param.Amount0, param.SqrtPriceX96),
      SwapSolution(param.Amount1, param.SqrtPriceX96),
      SwapSolution(param.Amount0, NoLimit),
      SwapSolution(param.Amount1, NoLimit),
      SwapSolution(incTowardsInfinity(param.Amount0), param.SqrtPriceX96),
      SwapSolution(incTowardsInfinity(param.Amount1), param.SqrtPriceX96),
      SwapSolution(incTowardsInfinity(param.Amount0), NoLimit),
      SwapSolution(incTowardsInfinity(param.Amount1), NoLimit)>>

AdjustedSolutions(param) ==
    <<SwapSolution(MulThousandths(param.Amount0, 1001), param.SqrtPriceX96),
      SwapSolution(MulThousandths(param.Amount1, 1001), param.SqrtPriceX96),
      SwapSolution(MulThousandths(param.Amount0, 999), param.SqrtPriceX96),
      SwapSolution(MulThousandths(param.Amount1, 999), param.SqrtPriceX96)>>

ZeroLiquiditySolutions(param) ==
    IF param.Liquidity = 0
    THEN <<SwapSolution(MulThousandths(param.Amount0, 1010), param.SqrtPriceX96),
           SwapSolution(MulThousandths(param.Amount1, 1010), param.SqrtPriceX96),
           SwapSolution(MulThousandths(param.Amount0, 990), param.SqrtPriceX96),
           SwapSolution(MulThousandths(param.Amount1, 990), param.SqrtPriceX96)>>
    ELSE <<>>

TolerantSolutionList(param) ==
    BaseSolutions(param) \o AdjustedSolutions(param) \o ZeroLiquiditySolutions(param)

\* |got - expected| / d <= 0.001
WithinTolerance(got, expected, d) == 1000 * Abs(got - expected) <= d

toleranceMatches(r, param) ==
    /\ WithinTolerance(r.amount0, param.Amount0, Max(Abs(param.Amount0), 1))
    /\ WithinTolerance(r.amount1, param.Amount1, Max(Abs(param.Amount1), 1))
    /\ WithinTolerance(r.sqrtPriceX96, param.SqrtPriceX96, param.SqrtPriceX96)

\* errors in millionths; an error above 0.003 is kept as just above 0.003, which
\* no accepted total contains
ErrorUnit == 1000000
ErrorLimit == 3000

NormalizedError(got, expected) ==
    IF expected # 0
    THEN IF 1000 * Abs(got - expected) > 3 * Abs(expected) THEN ErrorLimit + 1
         ELSE (Abs(got - expected) * ErrorUnit) \div Abs(expected)
    ELSE IF got # 0 THEN ErrorUnit
    ELSE 0

totalError(r, param) ==
    NormalizedError(r.sqrtPriceX96, param.SqrtPriceX96)
        + NormalizedError(r.amount0, param.Amount0)
        + NormalizedError(r.amount1, param.Amount1)

\* the loop of the first copy over its candidates, from the i-th on; best is
\* the place of the best approximation so far, 0 while there is none
RECURSIVE TryTolerant(_, _, _, _, _, _)
TryTolerantNext(p, param, solutionList, i, best, bestError, r) ==
    IF r.err # OK
    THEN TryTolerant(r.pool, param, solutionList, i + 1, best, bestError)
    ELSE IF toleranceMatches(r, param) THEN Resolved(solutionList[i], r.pool)
    ELSE IF best = 0 \/ totalError(r, param) < bestError
    THEN TryTolerant(r.pool, param, solutionList, i + 1, i, totalError(r, param))
    ELSE TryTolerant(r.pool, param, solutionList, i + 1, best, bestError)

TryTolerant(p, param, solutionList, i, best, bestError) ==
    IF i > Len(solutionList)
    THEN IF best # 0 /\ bestError < ErrorLimit THEN Resolved(solutionList[best], p)
         ELSE Unresolved(p)
    ELSE TryTolerantNext(p, param, solutionList, i, best, bestError,
                         DryRun("tolerant", p, param, solutionList[i]))

\* CorePool.ResolveInputFromSwapResultEvent of either copy
ResolveInputFromSwapResultEvent(copy, p, param) ==
    IF copy = "tolerant"
    THEN TryTolerant(p, param, TolerantSolutionList(param), 1, 0, 0)
    ELSE TryExact(p, param, ExactSolutionList(p, param), 1)

(************************** TokenPositionManager **************************)
NewTokenPosition(tokenID, owner, poolAddress, tickLower, tickUpper) ==
    [TokenID |-> tokenID, Owner |-> owner, Pool |-> poolAddress,
     TickLower |-> tickLower, TickUpper |-> tickUpper, Liquidity |-> 0,
     FeeGrowthInside0LastX128 |-> 0, FeeGrowthInside1LastX128 |-> 0,
     TokensOwed0 |-> 0, TokensOwed1 |-> 0]

LiquidityAddDelta(x, y) == AddDelta(x, y)

\* the fees a TokenPosition books for a snapshot: a plain difference, no wrap
TokenFees(feeGrowthInsideX128, feeGrowthInsideLastX128, liquidity) ==
    RoundDownDiv((feeGrowthInsideX128 - feeGrowthInsideLastX128) * liquidity, Q128)

\* TokenPosition.IncreaseLiquidity: [err, position]
IncreaseLiquidity(position, liquidityDelta, feeGrowthInside0X128, feeGrowthInside1X128) ==
    LET tokensOwed0 == TokenFees(feeGrowthInside0X128, position.FeeGrowthInside0LastX128,
                                 position.Liquidity)
        tokensOwed1 == TokenFees(feeGrowthInside1X128, position.FeeGrowthInside1LastX128,
                                 position.Liquidity)
        liquidityNext == LiquidityAddDelta(position.Liquidity, liquidityDelta)
        booked == tokensOwed0 > 0 \/ tokensOwed1 > 0
    IN  IF liquidityDelta <= 0
        THEN [err |-> "LiquidityDeltaNotPositive", position |-> position]
        ELSE IF liquidityNext.err # OK
        THEN [err |-> liquidityNext.err, position |-> position]
        ELSE [err |-> OK,
              position |-> [position EXCEPT
                  !.Liquidity = liquidityNext.v,
                  !.FeeGrowthInside0LastX128 = feeGrowthInside0X128,
                  !.FeeGrowthInside1LastX128 = feeGrowthInside1X128,
                  !.TokensOwed0 = IF booked THEN @ + tokensOwed0 ELSE @,
                  !.TokensOwed1 = IF booked THEN @ + tokensOwed1 ELSE @]]

\* TokenPosition.DecreaseLiquidity: [err, position]
DecreaseLiquidity(position, liquidityDelta, feeGrowthInside0X128, feeGrowthInside1X128, amount0, amount1) ==
    LET tokensOwed0 == TokenFees(feeGrowthInside0X128, position.FeeGrowthInside0LastX128,
                                 position.Liquidity)
        tokensOwed1 == TokenFees(feeGrowthInside1X128, position.FeeGrowthInside1LastX128,
                                 position.Liquidity)
        liquidityNext == LiquidityAddDelta(position.Liquidity, liquidityDelta)
    IN  IF liquidityDelta >= 0
        THEN [err |-> "LiquidityDeltaNotNegative", position |-> position]
        ELSE IF position.Liquidity < Abs(liquidityDelta)
        THEN [err |-> "LiquidityUnderflow", position |-> position]
        ELSE IF liquidityNext.err # OK
        THEN [err |-> liquidityNext.err, position |-> position]
        ELSE [err |-> OK,
              position |-> [position EXCEPT
                  !.Liquidity = liquidityNext.v,
                  !.FeeGrowthInside0LastX128 = feeGrowthInside0X128,
                  !.FeeGrowthInside1LastX128 = feeGrowthInside1X128,
                  !.TokensOwed0 = @ + tokensOwed0 + amount0,
                  !.TokensOwed1 = @ + tokensOwed1 + amount1]]

\* a Collect that pays out all that is owed, whatever was requested
TokenPositionCollectAll(position, amount0Requested, amount1Requested) ==
    [position |-> [position EXCEPT !.TokensOwed0 = 0, !.TokensOwed1 = 0],
     amount0 |-> position.TokensOwed0, amount1 |-> position.TokensOwed1]

\* TokenPosition.Collect: [position, amount0, amount1]
TokenPositionCollect(position, amount0Requested, amount1Requested) ==
    LET amount0 == IF amount0Requested > position.TokensOwed0
                   THEN position.TokensOwed0 ELSE amount0Requested
        amount1 == IF amount1Requested > position.TokensOwed1
                   THEN position.TokensOwed1 ELSE amount1Requested
    IN  [position |-> [position EXCEPT !.TokensOwed0 = @ - amount0,
                                       !.TokensOwed1 = @ - amount1],
         amount0 |-> amount0, amount1 |-> amount1]

\* index[key] of a Go map of slices: an absent key reads as the empty slice
TokensOf(index, key) == IF key \in DOMAIN index THEN index[key] ELSE <<>>

\* index[key] = tokens
SetTokens(index, key, tokens) ==
    [k \in DOMAIN index \cup {key} |-> IF k = key THEN tokens ELSE index[k]]

\* index[key] = append(index[key], tokenID)
AppendToken(index, key, tokenID) ==
    SetTokens(index, key, Append(TokensOf(index, key), tokenID))

\* the place of the first occurrence of tokenID in the slice, 0 if there is none
IndexOf(tokens, tokenID) ==
    IF \E i \in 1..Len(tokens) : tokens[i] = tokenID
    THEN CHOOSE k \in 1..Len(tokens) :
             tokens[k] = tokenID /\ \A j \in 1..(k - 1) : tokens[j] # tokenID
    ELSE 0

\* the slice without its i-th element: the last element takes its place and
\* the slice is truncated
SwapRemove(tokens, i) ==
    SubSeq([tokens EXCEPT ![i] = tokens[Len(tokens)]], 1, Len(tokens) - 1)

\* the loop of HandleTransfer over index[key]; the index is written only when
\* the token is found
RemoveToken(index, key, tokenID) ==
    IF IndexOf(TokensOf(index, key), tokenID) = 0 THEN index
    ELSE SetTokens(index, key,
                   SwapRemove(TokensOf(index, key),
                              IndexOf(TokensOf(index, key), tokenID)))

\* TokenPositionManager.CreatePosition
CreatePosition(tpm, tokenID, owner, poolAddress, tickLower, tickUpper) ==
    [Positions |-> [t \in DOMAIN tpm.Positions \cup {tokenID} |->
                       IF t = tokenID
                       THEN NewTokenPosition(tokenID, owner, poolAddress, tickLower, tickUpper)
                       ELSE tpm.Positions[t]],
     OwnerTokens |-> AppendToken(tpm.OwnerTokens, owner, tokenID),
     PoolTokens |-> AppendToken(tpm.PoolTokens, poolAddress, tokenID)]

\* the ledger after a method of the position of tokenID returned r
PositionResult(tpm, tokenID, r) ==
    [err |-> r.err, tpm |-> [tpm EXCEPT !.Positions[tokenID] = r.position]]

\* TokenPositionManager.HandleIncreaseLiquidity: [err, tpm]
HandleIncreaseLiquidity(tpm, tokenID, amount, feeGrowthInside0X128, feeGrowthInside1X128) ==
    IF tokenID \notin DOMAIN tpm.Positions THEN [err |-> "PositionNotFound", tpm |-> tpm]
    ELSE PositionResult(tpm, tokenID,
             IncreaseLiquidity(tpm.Positions[tokenID], amount,
                               feeGrowthInside0X128, feeGrowthInside1X128))

\* a HandleMint that creates the position again when the token id has one
HandleMintCreatesAgain(tpm, tokenID, owner, poolAddress, tickLower, tickUpper, amount, feeGrowthInside0X128, feeGrowthInside1X128) ==
    HandleIncreaseLiquidity(
        CreatePosition(tpm, tokenID, owner, poolAddress, tickLower, tickUpper),
        tokenID, amount, feeGrowthInside0X128, feeGrowthInside1X128)

\* TokenPositionManager.HandleMint: [err, tpm]
HandleMint(tpm, tokenID, owner, poolAddress, tickLower, tickUpper, amount, feeGrowthInside0X128, feeGrowthInside1X128) ==
    IF tokenID \in DOMAIN tpm.Positions
    THEN HandleIncreaseLiquidity(tpm, tokenID, amount,
                                 feeGrowthInside0X128, feeGrowthInside1X128)
    ELSE HandleIncreaseLiquidity(
             CreatePosition(tpm, tokenID, owner, poolAddress, tickLower, tickUpper),
             tokenID, amount, feeGrowthInside0X128, feeGrowthInside1X128)

\* TokenPositionManager.HandleDecreaseLiquidity: [err, tpm]
HandleDecreaseLiquidity(tpm, tokenID, liquidityDelta, feeGrowthInside0X128, feeGrowthInside1X128, amount0, amount1) ==
    IF tokenID \notin DOMAIN tpm.Positions THEN [err |-> "PositionNotFound", tpm |-> tpm]
    ELSE PositionResult(tpm, tokenID,
             DecreaseLiquidity(tpm.Positions[tokenID], -liquidityDelta,
                               feeGrowthInside0X128, feeGrowthInside1X128,
                               amount0, amount1))

\* a HandleCollect that opens an empty position for a token id that has none
HandleCollectCreates(tpm, tokenID, amount0Requested, amount1Requested) ==
    IF tokenID \notin DOMAIN tpm.Positions
    THEN [err |-> OK, tpm |-> CreatePosition(tpm, tokenID, "", "", 0, 0)]
    ELSE [err |-> OK,
          tpm |-> [tpm EXCEPT !.Positions[tokenID] =
                      TokenPositionCollect(@, amount0Requested, amount1Requested).position]]

\* TokenPositionManager.HandleCollect: [err, tpm, amount0, amount1]
HandleCollect(tpm, tokenID, amount0Requested, amount1Requested) ==
    IF tokenID \notin DOMAIN tpm.Positions
    THEN [err |-> "PositionNotFound", tpm |-> tpm, amount0 |-> 0, amount1 |-> 0]
    ELSE [err |-> OK,
          tpm |-> [tpm EXCEPT !.Positions[tokenID] =
                      TokenPositionCollect(@, amount0Requested, amount1Requested).position],
          amount0 |-> TokenPositionCollect(tpm.Positions[tokenID], amount0Requested,
                                           amount1Requested).amount0,
          amount1 |-> TokenPositionCollect(tpm.Positions[tokenID], amount0Requested,
                                           amount1Requested).amount1]

\* TokenPositionManager.HandleTransfer: [err, tpm]; the owner is written
\* before the owner is compared with from
HandleTransfer(tpm, tokenID, from, to) ==
    IF tokenID \notin DOMAIN tpm.Positions THEN [err |-> "PositionNotFound", tpm |-> tpm]
    ELSE IF tpm.Positions[tokenID].Owner # from
    THEN [err |-> "OwnershipMismatch", tpm |-> [tpm EXCEPT !.Positions[tokenID].Owner = to]]
    ELSE [err |-> OK,
          tpm |-> [tpm EXCEPT !.Positions[tokenID].Owner = to,
                              !.OwnerTokens =
                                  AppendToken(RemoveToken(@, from, tokenID), to, tokenID)]]

(************************** NFTPositionSimulator **************************)
\* the pools the simulator was given: the replayed pool and a second, idle one
PoolAddresses == {"p1", "p2"}

\* NFTPositionSimulator.GetPool: [err, pool]
GetPool(p, address) ==
    IF address \notin PoolAddresses THEN [err |-> "PoolNotFound", pool |-> NewCorePoolFromConfig]
    ELSE IF address = "p1" THEN [err |-> OK, pool |-> p]
    ELSE [err |-> OK, pool |-> NewCorePoolFromConfig]

\* the snapshot a handler takes from the pool: [fgi0, fgi1]
Snapshot(q, tickLower, tickUpper) ==
    GetFeeGrowthInside(q.Ticks, tickLower, tickUpper, q.TickCurrent,
                       q.FeeGrowthGlobal0X128, q.FeeGrowthGlobal1X128)

\* NFTPositionSimulator.processMintEvent: [err, tpm]
MintSnapshot(tpm, event, fgi) ==
    HandleMint(tpm, event.TokenID, event.Owner, event.Pool, event.TickLower,
               event.TickUpper, event.Amount, fgi.fgi0, fgi.fgi1)

processMintEvent(tpm, p, event) ==
    IF GetPool(p, event.Pool).err # OK
    THEN [err |-> GetPool(p, event.Pool).err, tpm |-> tpm]
    ELSE MintSnapshot(tpm, event,
             Snapshot(GetPool(p, event.Pool).pool, event.TickLower, event.TickUpper))

\* NFTPositionSimulator.processIncreaseLiquidityEvent: [err, tpm]
IncreaseSnapshot(tpm, event, fgi) ==
    HandleIncreaseLiquidity(tpm, event.TokenID, event.Liquidity, fgi.fgi0, fgi.fgi1)

IncreasePosition(tpm, p, event, position) ==
    IF GetPool(p, position.Pool).err # OK
    THEN [err |-> GetPool(p, position.Pool).err, tpm |-> tpm]
    ELSE IncreaseSnapshot(tpm, event,
             Snapshot(GetPool(p, position.Pool).pool, position.TickLower, position.TickUpper))

processIncreaseLiquidityEvent(tpm, p, event) ==
    IF event.TokenID \notin DOMAIN tpm.Positions
    THEN [err |-> "PositionNotFound", tpm |-> tpm]
    ELSE IncreasePosition(tpm, p, event, tpm.Positions[event.TokenID])

\* NFTPositionSimulator.processDecreaseLiquidityEvent: [err, tpm];
\* the handler is given the negated liquidity of the event
DecreaseSnapshot(tpm, event, fgi) ==
    HandleDecreaseLiquidity(tpm, event.TokenID, -event.Liquidity, fgi.fgi0,
                            fgi.fgi1, event.Amount0, event.Amount1)

DecreasePosition(tpm, p, event, position) ==
    IF GetPool(p, position.Pool).err # OK
    THEN [err |-> GetPool(p, position.Pool).err, tpm |-> tpm]
    ELSE DecreaseSnapshot(tpm, event,
             Snapshot(GetPool(p, position.Pool).pool, position.TickLower, position.TickUpper))

processDecreaseLiquidityEvent(tpm, p, event) ==
    IF event.TokenID \notin DOMAIN tpm.Positions
    THEN [err |-> "PositionNotFound", tpm |-> tpm]
    ELSE DecreasePosition(tpm, p, event, tpm.Positions[event.TokenID])

\* NFTPositionSimulator.processCollectEvent: [err, tpm]
processCollectEvent(tpm, event) ==
    HandleCollect(tpm, event.TokenID, event.Amount0, event.Amount1)

ZeroAddress == "0x0"

\* a processTransferEvent that skips only the transfers from the zero address
processTransferEventFromZero(tpm, event) ==
    IF event.From = ZeroAddress THEN [err |-> OK, tpm |-> tpm]
    ELSE HandleTransfer(tpm, event.TokenID, event.From, event.To)

\* NFTPositionSimulator.processTransferEvent: [err, tpm]
processTransferEvent(tpm, event) ==
    IF event.From = ZeroAddress \/ event.To = ZeroAddress THEN [err |-> OK, tpm |-> tpm]
    ELSE HandleTransfer(tpm, event.TokenID, event.From, event.To)

\* NewTokenPositionManager
NewTokenPositionManager ==
    [Positions |-> EmptyMap, OwnerTokens |-> EmptyMap, PoolTokens |-> EmptyMap]

(************************ the replayed pool: actions **********************)
MaxOps == 3

Copies == {"tolerant", "exact"}
Owners == {"a"}
InitPrices == {SqrtRatioBase, SqrtRatioBase + 2}
Ranges == {<<-2, 2>>, <<0, 2>>, <<-1, 1>>, <<-4, 2>>}
MintAmounts == {8, 400, MaxLiquidityPerTick + 1}
BurnAmounts == {8, 400}
\* amounts a Mint refuses
RefusedMintAmounts == {0, -8}
SwapAmounts == {3, 2000, -3, -2000}
SwapLimits == {NoLimit, SqrtRatioBase - 1, SqrtRatioBase - 2 * SqrtRatioStep,
               SqrtRatioBase + SqrtRatioStep + 1}

\* what the last call was and what it returned
NoCall ==
    [op |-> "none", err |-> OK, isStatic |-> FALSE, zeroForOne |-> FALSE,
     amountSpecified |-> 0, limit |-> 0, remaining |-> 0, sqrtPriceX96 |-> 0,
     passes |-> 0, steps |-> 0, crossings |-> 0, status |-> "none",
     tokenId |-> 0, liquidity |-> 0, amount0 |-> 0, amount1 |-> 0,
     owner |-> "", poolAddress |-> "", tickLower |-> 0, tickUpper |-> 0,
     from |-> "", to |-> "",
     burned0 |-> 0, burned1 |-> 0, owed0 |-> 0, owed1 |-> 0,
     collected0 |-> 0, collected1 |-> 0, optionalLimit |-> 0, price |-> 0]

Init ==
    /\ variant \in Copies
    /\ pool = NewCorePoolFromConfig
    /\ ledger = NewTokenPositionManager
    /\ last = NoCall
    /\ ops = 0
    /\ events = 0
    /\ chain = <<>>

\* a call of the pool counts as one operation and leaves the ledger alone
PoolCall(budget) ==
    /\ ops < budget
    /\ ops' = ops + 1
    /\ UNCHANGED <<variant, ledger, events, chain>>

\* the pool and the record of the last call after a call that returned r
PoolEffect(op, r, liquidity) ==
    /\ pool' = r.pool
    /\ last' = [NoCall EXCEPT !.op = op, !.err = r.err, !.liquidity = liquidity,
                              !.amount0 = r.amount0, !.amount1 = r.amount1]

\* a Mint call leaves its range in the record as well
MintEffect(r, range, amount) ==
    /\ pool' = r.pool
    /\ last' = [NoCall EXCEPT !.op = "Mint", !.err = r.err, !.liquidity = amount,
                              !.amount0 = r.amount0, !.amount1 = r.amount1,
                              !.tickLower = range[1], !.tickUpper = range[2]]

\* a Burn call leaves its owner and its range in the record as well
BurnEffect(r, owner, range, amount) ==
    /\ pool' = r.pool
    /\ last' = [NoCall EXCEPT !.op = "Burn", !.err = r.err, !.liquidity = amount,
                              !.amount0 = r.amount0, !.amount1 = r.amount1,
                              !.owner = owner,
                              !.tickLower = range[1], !.tickUpper = range[2]]

InitializeEffect(r, sqrtPriceX96) ==
    /\ pool' = r.pool
    /\ last' = [NoCall EXCEPT !.op = "Initialize", !.err = r.err, !.price = sqrtPriceX96]

InitializeWith(prices) ==
    \E sqrtPriceX96 \in prices : InitializeEffect(Initialize(pool, sqrtPriceX96), sqrtPriceX96)

\* liquidity events come after the pool's Initialize event
MintWith(owners, ranges, amounts) ==
    /\ pool.SqrtPriceX96 # 0
    /\ \E owner \in owners, range \in ranges, amount \in amounts :
         MintEffect(Mint(pool, owner, range[1], range[2], amount), range, amount)

BurnWith(owners, ranges, amounts) ==
    /\ pool.SqrtPriceX96 # 0
    /\ \E owner \in owners, range \in ranges, amount \in amounts :
         BurnEffect(Burn(pool, owner, range[1], range[2], amount), owner, range, amount)

CollectWith(owners, ranges) ==
    \E owner \in owners, range \in ranges :
        PoolEffect("Collect",
                   Collect(pool, owner, range[1], range[2], MaxUint128, MaxUint128), 0)

\* what a HandleSwap call leaves in the record of the last call
SwapCall(r, zeroForOne, amountSpecified, isStatic) ==
    [NoCall EXCEPT !.op = "HandleSwap", !.err = r.err, !.isStatic = isStatic,
                   !.zeroForOne = zeroForOne, !.amountSpecified = amountSpecified,
                   !.limit = r.limit, !.remaining = r.state.amountSpecifiedRemaining,
                   !.sqrtPriceX96 = r.sqrtPriceX96, !.passes = r.state.iterationCount,
                   !.steps = r.state.steps, !.crossings = r.state.crossings,
                   !.status = r.state.status,
                   !.amount0 = r.amount0, !.amount1 = r.amount1]

SwapEffect(r, zeroForOne, amountSpecified, optionalLimit, isStatic) ==
    /\ pool' = r.pool
    /\ last' = [SwapCall(r, zeroForOne, amountSpecified, isStatic)
                  EXCEPT !.optionalLimit = optionalLimit]

SwapWith(directions, amounts, limits, statics) ==
    \E zeroForOne \in directions, amountSpecified \in amounts,
       optionalLimit \in limits, isStatic \in statics :
        SwapEffect(HandleSwap(variant, pool, zeroForOne, amountSpecified, optionalLimit,
                              isStatic),
                   zeroForOne, amountSpecified, optionalLimit, isStatic)

DoInitialize == PoolCall(MaxOps) /\ InitializeWith(InitPrices \cup {0})
DoMint == PoolCall(MaxOps) /\ MintWith(Owners, Ranges, MintAmounts)
DoMintNothing == PoolCall(MaxOps) /\ MintWith(Owners, {<<-2, 2>>}, RefusedMintAmounts)
DoBurn == PoolCall(MaxOps) /\ BurnWith(Owners, Ranges, BurnAmounts)
DoCollect == PoolCall(MaxOps) /\ CollectWith(Owners, Ranges)
DoSwap == PoolCall(MaxOps) /\ SwapWith(BOOLEAN, SwapAmounts, SwapLimits, BOOLEAN)

Next == DoInitialize \/ DoMint \/ DoMintNothing \/ DoBurn \/ DoCollect \/ DoSwap

Spec == Init /\ [][Next]_vars

(******************** the ledger beside the pool: actions *****************)
MaxPoolOps == 5
MaxEvents == 2

TokenIDs == {1}
Holders == {"a", "b"}
Senders == {"a", "b", ZeroAddress}
EventPools == {"p1"}
EventRanges == {<<-4, 4>>, <<0, 4>>}
EventLiquidity == {1000}
DecreaseLiquidityAmounts == {500}
WithdrawnAmounts == {1}
ReplayPrices == {SqrtRatioBase + 2}
ReplayRanges == {<<-2, 2>>, <<0, 2>>}
ReplayMintAmounts == {300}
ReplaySwapAmounts == {1, 3}

\* the events of the NonfungiblePositionManager, as the parsers return them
NFTMintEvent(tokenID, owner, tickLower, tickUpper, amount, poolAddress) ==
    [TokenID |-> tokenID, Owner |-> owner, TickLower |-> tickLower,
     TickUpper |-> tickUpper, Amount |-> amount, Pool |-> poolAddress]

NFTIncreaseLiquidityEvent(tokenID, liquidity, amount0, amount1) ==
    [TokenID |-> tokenID, Liquidity |-> liquidity, Amount0 |-> amount0, Amount1 |-> amount1]

NFTDecreaseLiquidityEvent(tokenID, liquidity, amount0, amount1) ==
    [TokenID |-> tokenID, Liquidity |-> liquidity, Amount0 |-> amount0, Amount1 |-> amount1]

NFTCollectEvent(tokenID, amount0, amount1) ==
    [TokenID |-> tokenID, Amount0 |-> amount0, Amount1 |-> amount1]

NFTTransferEvent(tokenID, from, to) ==
    [TokenID |-> tokenID, From |-> from, To |-> to]

\* an event of the ledger counts as one event and leaves the pool alone
LedgerEvent(budget) ==
    /\ events < budget
    /\ events' = events + 1
    /\ UNCHANGED <<variant, pool, ops, chain>>

\* the ledger and the record of the last call after an event handler returned r
EventEffect(op, r, tokenID, liquidity, amount0, amount1) ==
    /\ ledger' = r.tpm
    /\ last' = [NoCall EXCEPT !.op = op, !.err = r.err, !.tokenId = tokenID,
                              !.liquidity = liquidity,
                              !.amount0 = amount0, !.amount1 = amount1]

PoolInitialize == PoolCall(MaxPoolOps) /\ InitializeWith(ReplayPrices)
PoolMint == PoolCall(MaxPoolOps) /\ MintWith(Owners, ReplayRanges, ReplayMintAmounts)
PoolSwap == PoolCall(MaxPoolOps) /\ SwapWith(BOOLEAN, ReplaySwapAmounts, {NoLimit}, {FALSE})

NFTMint ==
    /\ LedgerEvent(MaxEvents)
    /\ \E tokenID \in TokenIDs, owner \in Holders, poolAddress \in EventPools,
          range \in EventRanges, amount \in EventLiquidity :
         EventEffect("NFTMint",
             processMintEvent(ledger, pool,
                 NFTMintEvent(tokenID, owner, range[1], range[2], amount, poolAddress)),
             tokenID, amount, 0, 0)

NFTIncreaseLiquidity ==
    /\ LedgerEvent(MaxEvents)
    /\ \E tokenID \in TokenIDs, liquidity \in EventLiquidity :
         EventEffect("NFTIncreaseLiquidity",
             processIncreaseLiquidityEvent(ledger, pool,
                 NFTIncreaseLiquidityEvent(tokenID, liquidity, 0, 0)),
             tokenID, liquidity, 0, 0)

NFTDecreaseLiquidity ==
    /\ LedgerEvent(MaxEvents)
    /\ \E tokenID \in TokenIDs, liquidity \in DecreaseLiquidityAmounts,
          amount0 \in WithdrawnAmounts, amount1 \in WithdrawnAmounts :
         EventEffect("NFTDecreaseLiquidity",
             processDecreaseLiquidityEvent(ledger, pool,
                 NFTDecreaseLiquidityEvent(tokenID, liquidity, amount0, amount1)),
             tokenID, liquidity, amount0, amount1)

NFTCollect ==
    /\ LedgerEvent(MaxEvents)
    /\ \E tokenID \in TokenIDs :
         EventEffect("NFTCollect",
             processCollectEvent(ledger, NFTCollectEvent(tokenID, MaxUint128, MaxUint128)),
             tokenID, 0, MaxUint128, MaxUint128)

NFTTransfer ==
    /\ LedgerEvent(MaxEvents)
    /\ \E tokenID \in TokenIDs, from \in Senders, to \in Holders :
         EventEffect("NFTTransfer",
             processTransferEvent(ledger, NFTTransferEvent(tokenID, from, to)),
             tokenID, 0, 0, 0)

NextNFT ==
    \/ PoolInitialize \/ PoolMint \/ PoolSwap
    \/ NFTMint \/ NFTIncreaseLiquidity \/ NFTDecreaseLiquidity \/ NFTCollect \/ NFTTransfer

SpecNFT == Init /\ [][NextNFT]_vars

(****************** a pool with a tick at every spacing *******************)
MaxCapOps == 1
ShortSwaps == 60
LongSwap == 1050

\* n mints of liquidity 1, one per spacing from tick first upwards, computed
\* by halving so that the evaluation stays shallow
RECURSIVE MintEach(_, _, _)
RECURSIVE MintRest(_, _, _)
MintRest(half, first, n) ==
    IF half.SqrtPriceX96 # 0 THEN MintEach(half, first, n) ELSE half

MintEach(p, first, n) ==
    IF n <= 0 THEN p
    ELSE IF n = 1 THEN Mint(p, "a", first, first + TickSpacing, 1).pool
    ELSE MintRest(MintEach(p, first, n \div 2),
                  first + TickSpacing * (n \div 2), n - (n \div 2))

\* the pool initialised one spacing below MAX_TICK, after a mint on every
\* spacing between MIN_TICK and MAX_TICK
DensePool ==
    MintEach(Initialize(NewCorePoolFromConfig,
                        GetSqrtRatioAtTick(MAX_TICK - TickSpacing).v).pool,
             MIN_TICK, (MAX_TICK - MIN_TICK) \div TickSpacing)

CapSwapAmounts == {-k : k \in 1..ShortSwaps} \cup {-LongSwap}

InitCap ==
    /\ variant \in Copies
    /\ pool = DensePool
    /\ ledger = NewTokenPositionManager
    /\ last = NoCall
    /\ ops = 0
    /\ events = 0
    /\ chain = <<>>

\* a zeroForOne exact-output swap down the ticks, one tick a step
CapSwap == PoolCall(MaxCapOps) /\ SwapWith({TRUE}, CapSwapAmounts, {NoLimit}, {FALSE})

NextCap == CapSwap

SpecCap == InitCap /\ [][NextCap]_vars

(********************* the resolver on the replayed pool ******************)
MaxResolveOps == 4

ResolvePrices == {SqrtRatioBase}
ResolveRanges == {<<-2, 2>>, <<-4, 4>>}
ResolveMintAmounts == {600}
ResolveSwapAmounts == {1, 3, 2000, -3, -2000}
ResolveSwapLimits == {NoLimit, SqrtRatioBase - 1, SqrtRatioBase - 2 * SqrtRatioStep,
                      SqrtRatioBase + SqrtRatioStep + 1}

\* the Swap log the pool emits for a swap that returned r, with the liquidity
\* the log carries
SwapEventOf(r, liquidity) ==
    UniV3SwapEvent(r.amount0, r.amount1, r.sqrtPriceX96, liquidity)

\* the pool and the record of the last call after the resolver returned s for
\* the event param
ResolveEffect(s, param) ==
    /\ pool' = s.pool
    /\ last' = [NoCall EXCEPT !.op = "Resolve", !.err = s.err,
                              !.zeroForOne = param.Amount0 > 0,
                              !.amountSpecified = s.AmountSpecified,
                              !.limit = s.SqrtPriceLimitX96,
                              !.amount0 = param.Amount0, !.amount1 = param.Amount1,
                              !.sqrtPriceX96 = param.SqrtPriceX96,
                              !.liquidity = param.Liquidity]

ResolveEvent(param) ==
    ResolveEffect(ResolveInputFromSwapResultEvent(variant, pool, param), param)

\* the event of a swap the pool's contract made in the state the replay is in
ResolveSwap(r) ==
    /\ r.err = OK
    /\ \E liquidity \in {pool.Liquidity, r.state.liquidity} :
         ResolveEvent(SwapEventOf(r, liquidity))

ResolveWith(directions, amounts, limits) ==
    /\ pool.SqrtPriceX96 # 0
    /\ \E zeroForOne \in directions, amountSpecified \in amounts, optionalLimit \in limits :
         ResolveSwap(HandleSwap("exact", pool, zeroForOne, amountSpecified,
                                optionalLimit, TRUE))

ResolverInitialize == PoolCall(MaxResolveOps) /\ InitializeWith(ResolvePrices)
ResolverMint == PoolCall(MaxResolveOps) /\ MintWith(Owners, ResolveRanges, ResolveMintAmounts)
ResolverSwap ==
    PoolCall(MaxResolveOps)
        /\ SwapWith(BOOLEAN, ResolveSwapAmounts, ResolveSwapLimits, {FALSE})
ResolverResolve ==
    PoolCall(MaxResolveOps)
        /\ ResolveWith(BOOLEAN, ResolveSwapAmounts, ResolveSwapLimits)

NextResolve == ResolverInitialize \/ ResolverMint \/ ResolverSwap \/ ResolverResolve

SpecResolve == Init /\ [][NextResolve]_vars

(****************** the NFT manager's logs beside the pool's *****************)
MaxChainTail == 3

\* one log of the chain: the block it is in, the contract that emitted it
\* ("pool" or "nft"), the event, for a swap its direction, and the address in
\* the event: the pool of a Mint, the sender of a Transfer
ChainLog(block, source, op, zeroForOne, address) ==
    [block |-> block, source |-> source, op |-> op, zeroForOne |-> zeroForOne,
     address |-> address]

\* "p3" is a pool the simulator was not given
LogKinds ==
    {<<"pool", "Swap", TRUE, "">>, <<"pool", "Swap", FALSE, "">>,
     <<"nft", "Mint", FALSE, "p1">>, <<"nft", "Mint", FALSE, "p3">>,
     <<"nft", "IncreaseLiquidity", FALSE, "">>, <<"nft", "Transfer", FALSE, "b">>}

\* the pool is created and funded in block 1
ChainPrefix ==
    <<ChainLog(1, "pool", "Initialize", FALSE, ""), ChainLog(1, "pool", "Mint", FALSE, "")>>

\* the block of the i-th log of a tail: a log is in the block of the log
\* before it or in the next block
RECURSIVE TailBlock(_, _)
TailBlock(tail, i) == IF i = 0 THEN 1 ELSE TailBlock(tail, i - 1) + tail[i][2]

ChainOf(tail) ==
    ChainPrefix \o [i \in 1..Len(tail) |->
        ChainLog(TailBlock(tail, i), tail[i][1][1], tail[i][1][2], tail[i][1][3],
                 tail[i][1][4])]

Chains == {ChainOf(tail) : tail \in [1..MaxChainTail -> LogKinds \X {0, 1}]}

InitSync ==
    /\ variant \in Copies
    /\ pool = NewCorePoolFromConfig
    /\ ledger = NewTokenPositionManager
    /\ last = NoCall
    /\ ops = 0
    /\ events = 0
    /\ chain \in Chains

\* the logs of one contract among those of a chain that satisfy a condition
LogsBefore(c, source, i) == Cardinality({j \in 1..(i - 1) : c[j].source = source})
LogsBelowBlock(c, source, block) ==
    Cardinality({j \in 1..Len(c) : c[j].source = source /\ c[j].block < block})
LogsUpToBlock(c, source, block) == LogsBelowBlock(c, source, block + 1)

\* the replay of the pool applies the pool's next log; it is not behind the
\* ledger by a block
ApplyPoolLog(log) ==
    IF log.op = "Initialize" THEN InitializeWith(ReplayPrices)
    ELSE IF log.op = "Mint" THEN MintWith(Owners, {<<-2, 2>>}, ReplayMintAmounts)
    ELSE SwapWith({log.zeroForOne}, {1}, {NoLimit}, {FALSE})

SyncPool ==
    /\ \E i \in 1..Len(chain) :
         /\ chain[i].source = "pool"
         /\ LogsBefore(chain, "pool", i) = ops
         /\ LogsBelowBlock(chain, "nft", chain[i].block) <= events
         /\ ApplyPoolLog(chain[i])
    /\ ops' = ops + 1
    /\ UNCHANGED <<variant, ledger, events, chain>>

\* ethclient.FilterLogs for the NFT manager's address: the positions in the
\* chain of its logs in the blocks startBlock..endBlock, in log order
FilterLogs(c, startBlock, endBlock) ==
    SelectSeq([i \in 1..Len(c) |-> i],
              LAMBDA i : /\ c[i].source = "nft"
                         /\ startBlock <= c[i].block
                         /\ c[i].block <= endBlock)

\* NFTPositionSimulator.processEvent: [err, tpm]
processEvent(tpm, p, log) ==
    IF log.op = "Mint"
    THEN processMintEvent(tpm, p, NFTMintEvent(1, "a", -4, 4, 1000, log.address))
    ELSE IF log.op = "IncreaseLiquidity"
    THEN processIncreaseLiquidityEvent(tpm, p, NFTIncreaseLiquidityEvent(1, 1000, 0, 0))
    ELSE IF log.op = "DecreaseLiquidity"
    THEN processDecreaseLiquidityEvent(tpm, p, NFTDecreaseLiquidityEvent(1, 500, 1, 1))
    ELSE IF log.op = "Collect"
    THEN processCollectEvent(tpm, NFTCollectEvent(1, MaxUint128, MaxUint128))
    ELSE IF log.op = "Transfer"
    THEN processTransferEvent(tpm, NFTTransferEvent(1, log.address, "b"))
    ELSE [err |-> "UnknownEventType", tpm |-> tpm]

\* a loop that gives up at the first event that fails
RECURSIVE processLogsUntilError(_, _, _, _, _)
processLogsUntilError(tpm, p, c, logs, i) ==
    IF i > Len(logs) THEN tpm
    ELSE IF processEvent(tpm, p, c[logs[i]]).err # OK THEN tpm
    ELSE processLogsUntilError(processEvent(tpm, p, c[logs[i]]).tpm, p, c, logs, i + 1)

\* the loop of SyncEvents: an event that fails is warned about and skipped
RECURSIVE processLogs(_, _, _, _, _)
processLogs(tpm, p, c, logs, i) ==
    IF i > Len(logs) THEN tpm
    ELSE processLogs(processEvent(tpm, p, c[logs[i]]).tpm, p, c, logs, i + 1)

\* NFTPositionSimulator.SyncEvents for the next block that has logs of the
\* NFT manager, called once the pool has replayed the blocks before it
SyncEventsEffect(logs, block) ==
    /\ Len(logs) > 0
    /\ ledger' = processLogs(ledger, pool, chain, logs, 1)
    /\ events' = events + Len(logs)
    /\ last' = [NoCall EXCEPT !.op = "SyncEvents", !.tokenId = 1, !.passes = block]

SyncEvents ==
    /\ \E block \in 1..(MaxChainTail + 1) :
         /\ LogsBelowBlock(chain, "nft", block) = events
         /\ LogsBelowBlock(chain, "pool", block) <= ops
         /\ SyncEventsEffect(FilterLogs(chain, block, block), block)
    /\ UNCHANGED <<variant, pool, ops, chain>>

NextSync == SyncPool \/ SyncEvents

SpecSync == InitSync /\ [][NextSync]_vars

(************************ the ledger of several tokens **********************)
MaxLedgerEvents == 4

LedgerTokenIDs == {1, 2}
\* the Mint events of the NFT manager: owner, pool, tickLower, tickUpper
LedgerMints == {<<"a", "p1", -4, 4>>, <<"b", "p2", 0, 4>>}
\* their amounts: one the position takes and one it refuses
LedgerMintAmounts == EventLiquidity \cup {0}
\* the amounts a Collect event asks for, of either token
CollectRequests == {0, 1, MaxUint128}

\* the pool the ledger takes its snapshots from: initialised and funded
LedgerPool ==
    Mint(Initialize(NewCorePoolFromConfig, SqrtRatioBase + 2).pool, "a", -2, 2, 300).pool

InitLedger ==
    /\ variant \in Copies
    /\ pool = LedgerPool
    /\ ledger = NewTokenPositionManager
    /\ last = NoCall
    /\ ops = 0
    /\ events = 0
    /\ chain = <<>>

LedgerMintEffect(r, event) ==
    /\ ledger' = r.tpm
    /\ last' = [NoCall EXCEPT !.op = "NFTMint", !.err = r.err, !.tokenId = event.TokenID,
                              !.liquidity = event.Amount, !.owner = event.Owner,
                              !.poolAddress = event.Pool,
                              !.tickLower = event.TickLower,
                              !.tickUpper = event.TickUpper]

LedgerMintEvent(event) == LedgerMintEffect(processMintEvent(ledger, pool, event), event)

LedgerMint ==
    /\ LedgerEvent(MaxLedgerEvents)
    /\ \E tokenID \in LedgerTokenIDs, mint \in LedgerMints, amount \in LedgerMintAmounts :
         LedgerMintEvent(NFTMintEvent(tokenID, mint[1], mint[3], mint[4], amount, mint[2]))

LedgerIncreaseLiquidity ==
    /\ LedgerEvent(MaxLedgerEvents)
    /\ \E tokenID \in LedgerTokenIDs, liquidity \in EventLiquidity :
         EventEffect("NFTIncreaseLiquidity",
             processIncreaseLiquidityEvent(ledger, pool,
                 NFTIncreaseLiquidityEvent(tokenID, liquidity, 0, 0)),
             tokenID, liquidity, 0, 0)

LedgerDecreaseLiquidity ==
    /\ LedgerEvent(MaxLedgerEvents)
    /\ \E tokenID \in LedgerTokenIDs, liquidity \in DecreaseLiquidityAmounts,
          amount \in WithdrawnAmounts :
         EventEffect("NFTDecreaseLiquidity",
             processDecreaseLiquidityEvent(ledger, pool,
                 NFTDecreaseLiquidityEvent(tokenID, liquidity, amount, amount)),
             tokenID, liquidity, amount, amount)

LedgerCollect ==
    /\ LedgerEvent(MaxLedgerEvents)
    /\ \E tokenID \in LedgerTokenIDs, requested \in CollectRequests :
         EventEffect("NFTCollect",
             processCollectEvent(ledger, NFTCollectEvent(tokenID, requested, requested)),
             tokenID, 0, requested, requested)

LedgerTransferEffect(r, event) ==
    /\ ledger' = r.tpm
    /\ last' = [NoCall EXCEPT !.op = "NFTTransfer", !.err = r.err,
                              !.tokenId = event.TokenID,
                              !.from = event.From, !.to = event.To]

LedgerTransferEvent(event) == LedgerTransferEffect(processTransferEvent(ledger, event), event)

LedgerTransfer ==
    /\ LedgerEvent(MaxLedgerEvents)
    /\ \E tokenID \in LedgerTokenIDs, from \in Senders, to \in Senders :
         LedgerTransferEvent(NFTTransferEvent(tokenID, from, to))

NextLedger ==
    \/ LedgerMint \/ LedgerIncreaseLiquidity \/ LedgerDecreaseLiquidity
    \/ LedgerCollect \/ LedgerTransfer

SpecLedger == InitLedger /\ [][NextLedger]_vars

(********************* Collect events on a ledger with fees ***************)
MaxCollectEvents == 3

\* the fee growth inside its range a position is increased at
CollectSnapshots == {0, 5, 9}

\* the ledger after a Mint of token 1 at fee growth 0 and an IncreaseLiquidity
\* at the given fee growth: the position is owed the fees of the first 1000
HandleIncreased(r, fgi0, fgi1) ==
    HandleIncreaseLiquidity(r.tpm, 1, 1000, fgi0, fgi1).tpm

CollectLedger(fgi0, fgi1) ==
    HandleIncreased(HandleMint(NewTokenPositionManager, 1, "a", "p1", -4, 4, 1000, 0, 0),
                    fgi0, fgi1)

InitCollect ==
    /\ variant \in Copies
    /\ pool = LedgerPool
    /\ \E fgi0 \in CollectSnapshots, fgi1 \in CollectSnapshots :
          ledger = CollectLedger(fgi0, fgi1)
    /\ last = NoCall
    /\ ops = 0
    /\ events = 0
    /\ chain = <<>>

CollectEvent ==
    /\ LedgerEvent(MaxCollectEvents)
    /\ \E tokenID \in LedgerTokenIDs, requested0 \in CollectRequests,
          requested1 \in CollectRequests :
         EventEffect("NFTCollect",
             processCollectEvent(ledger, NFTCollectEvent(tokenID, requested0, requested1)),
             tokenID, 0, requested0, requested1)

NextCollect == CollectEvent

SpecCollect == InitCollect /\ [][NextCollect]_vars

(******************* a position minted, burned and collected ****************)
MaxRoundOps == 4

RoundOwners == {"a", "b"}
RoundRanges == {<<-2, 2>>, <<2, 4>>, <<-4, -2>>}
RoundAmounts == {1, 600}
RoundSwapAmounts == {3, 2000}
\* no limit, or the price of tick 2, where two of the ranges meet
RoundSwapLimits == {NoLimit, SqrtRatioBase + 2 * SqrtRatioStep}

\* the position of an owner in the pool, a fresh one if the pool has none
PositionOf(p, owner, tickLower, tickUpper) ==
    GetPositionReadonly(p.Positions, owner, tickLower, tickUpper)

\* the record of a Mint that was followed by Burn and Collect
RoundTripCall(err, owner, tickLower, tickUpper, amount) ==
    [NoCall EXCEPT !.op = "RoundTrip", !.err = err, !.owner = owner,
                   !.tickLower = tickLower, !.tickUpper = tickUpper,
                   !.liquidity = amount]

RoundTripFailed(r, owner, tickLower, tickUpper, amount) ==
    /\ pool' = r.pool
    /\ last' = RoundTripCall(r.err, owner, tickLower, tickUpper, amount)

RoundTripCollected(m, b, c, owner, tickLower, tickUpper, amount) ==
    IF c.err # OK THEN RoundTripFailed(c, owner, tickLower, tickUpper, amount)
    ELSE /\ pool' = c.pool
         /\ last' = [RoundTripCall(OK, owner, tickLower, tickUpper, amount) EXCEPT
                        !.amount0 = m.amount0, !.amount1 = m.amount1,
                        !.owed0 = PositionOf(m.pool, owner, tickLower, tickUpper).TokensOwed0,
                        !.owed1 = PositionOf(m.pool, owner, tickLower, tickUpper).TokensOwed1,
                        !.burned0 = b.amount0, !.burned1 = b.amount1,
                        !.collected0 = c.amount0, !.collected1 = c.amount1]

RoundTripBurned(m, b, owner, tickLower, tickUpper, amount) ==
    IF b.err # OK THEN RoundTripFailed(b, owner, tickLower, tickUpper, amount)
    ELSE RoundTripCollected(m, b,
             Collect(b.pool, owner, tickLower, tickUpper, MaxUint128, MaxUint128),
             owner, tickLower, tickUpper, amount)

RoundTripMinted(m, owner, tickLower, tickUpper, amount) ==
    IF m.err # OK THEN RoundTripFailed(m, owner, tickLower, tickUpper, amount)
    ELSE RoundTripBurned(m, Burn(m.pool, owner, tickLower, tickUpper, amount),
                         owner, tickLower, tickUpper, amount)

\* Mint, then Burn of the same liquidity, then Collect of all that is owed,
\* with no other call between them
RoundTripWith(owners, ranges, amounts) ==
    /\ pool.SqrtPriceX96 # 0
    /\ \E owner \in owners, range \in ranges, amount \in amounts :
         RoundTripMinted(Mint(pool, owner, range[1], range[2], amount),
                         owner, range[1], range[2], amount)

RoundInitialize == PoolCall(MaxRoundOps) /\ InitializeWith(InitPrices)
RoundMint == PoolCall(MaxRoundOps) /\ MintWith(Owners, RoundRanges, ReplayMintAmounts)
RoundBurn == PoolCall(MaxRoundOps) /\ BurnWith(Owners, RoundRanges, ReplayMintAmounts)
RoundSwap == PoolCall(MaxRoundOps) /\ SwapWith(BOOLEAN, RoundSwapAmounts, RoundSwapLimits, {FALSE})
RoundTrip == PoolCall(MaxRoundOps) /\ RoundTripWith(RoundOwners, RoundRanges, RoundAmounts)

NextRound == RoundInitialize \/ RoundMint \/ RoundBurn \/ RoundSwap \/ RoundTrip

SpecRound == Init /\ [][NextRound]_vars

(****************************** SpecDivision ******************************)
\* the fee divisions on their own: Decimal.Div keeps a fixed number of
\* digits after the decimal point (decimal.DivisionPrecision, 16 in the
\* library, against the 39 digits of 2^128) and rounds the last one half
\* away from zero; here one digit against the four digits of Q128
DivisionScale == 10

\* Decimal.Div of two integers, a >= 0 and b > 0, in units of 1/DivisionScale:
\* the quotient cut after the kept digits, one unit more when the remainder
\* is at least half of b
DecimalDiv(a, b) ==
    LET q == (a * DivisionScale) \div b
        r == (a * DivisionScale) % b
    IN  IF 2 * r >= b THEN q + 1 ELSE q

\* Decimal.RoundDown(0) of a non-negative value given in units of 1/DivisionScale
DecimalRoundDown(units) == units \div DivisionScale

\* HandleSwap's fee growth of one step: feeAmount * Q128 / liquidity, rounded down
feeGrowthDelta(feeAmount, liquidity) == DecimalRoundDown(DecimalDiv(feeAmount * Q128, liquidity))

\* IncreaseLiquidity's and DecreaseLiquidity's fee of one token
tokenFees(delta, liquidity) == DecimalRoundDown(DecimalDiv(delta * liquidity, Q128))

MaxDivFee == 1
MaxDivOperand == 82

\* the operands of one division
InitDivision ==
    /\ variant \in Copies
    /\ pool = NewCorePoolFromConfig
    /\ ledger = NewTokenPositionManager
    /\ \E operand \in 0..MaxDivOperand, liquidity \in 1..MaxDivOperand :
           last = [NoCall EXCEPT !.amount0 = operand, !.liquidity = liquidity]
    /\ ops = 0
    /\ events = 0
    /\ chain = <<>>

\* one step's fee over the liquidity in range
DivideStepFee ==
    /\ last.op = "none"
    /\ last.amount0 <= MaxDivFee
    /\ last' = [last EXCEPT !.op = "feeGrowthDelta",
                            !.amount1 = feeGrowthDelta(last.amount0, last.liquidity)]
    /\ UNCHANGED <<variant, pool, ledger, ops, events, chain>>

\* a position's liquidity times the growth of its fee growth inside
DivideAccrual ==
    /\ last.op = "none"
    /\ last' = [last EXCEPT !.op = "tokenFees",
                            !.amount1 = tokenFees(last.amount0, last.liquidity)]
    /\ UNCHANGED <<variant, pool, ledger, ops, events, chain>>

NextDivision == DivideStepFee \/ DivideAccrual

SpecDivision == InitDivision /\ [][NextDivision]_vars

(***************************** SpecUninitialized **************************)
\* calls of the pool in any order, also before Initialize
MaxFreshOps == 3

FreshRanges == {<<-2, 2>>, <<2, 4>>}
FreshAmounts == {300}
FreshSwapAmounts == {3, -3}

\* Mint and Burn without the Initialize event before them
FreshMint ==
    /\ PoolCall(MaxFreshOps)
    /\ \E owner \in Owners, range \in FreshRanges, amount \in FreshAmounts :
         MintEffect(Mint(pool, owner, range[1], range[2], amount), range, amount)

FreshBurn ==
    /\ PoolCall(MaxFreshOps)
    /\ \E owner \in Owners, range \in FreshRanges, amount \in FreshAmounts :
         BurnEffect(Burn(pool, owner, range[1], range[2], amount), owner, range, amount)

FreshInitialize == PoolCall(MaxFreshOps) /\ InitializeWith(InitPrices)
FreshSwap == PoolCall(MaxFreshOps) /\ SwapWith(BOOLEAN, FreshSwapAmounts, {NoLimit}, BOOLEAN)

NextUninitialized == FreshInitialize \/ FreshMint \/ FreshBurn \/ FreshSwap

SpecUninitialized == Init /\ [][NextUninitialized]_vars

(******************************* properties *******************************)
RECURSIVE SumLiquidityNet(_, _)
SumLiquidityNet(ticks, S) ==
    IF S = {} THEN 0
    ELSE LET i == CHOOSE x \in S : TRUE
         IN  ticks[i].LiquidityNet + SumLiquidityNet(ticks, S \ {i})

\* the sum of liquidityNet over the ticks of the map at or below TickCurrent
ActiveLiquidityNet(p) ==
    SumLiquidityNet(p.Ticks, {i \in DOMAIN p.Ticks : i <= p.TickCurrent})

\* C1: between calls, the liquidity of an initialised pool is the sum of
\* liquidityNet over all ticks of the tick map at or below TickCurrent, for
\* every tick range checkTicks accepts, aligned to TickSpacing or not.
C1_LiquidityIsSumOfNet ==
    pool.SqrtPriceX96 # 0 => pool.Liquidity = ActiveLiquidityNet(pool)

\* C2: a tick is a key of the tick map only while its liquidityGross is
\* greater than 0, whatever calls succeeded or failed before.
C2_PresentTicksHaveGross ==
    \A i \in DOMAIN pool.Ticks : pool.Ticks[i].LiquidityGross > 0

\* C3: after every operation on an initialised pool, TickCurrent is
\* getTickAtSqrtRatio(SqrtPriceX96), also after a zeroForOne swap that ends on
\* the price of a tick it has just crossed.
C3_TickMatchesPrice ==
    pool.SqrtPriceX96 # 0 =>
        pool.TickCurrent = GetTickAtSqrtRatio(pool.SqrtPriceX96).v

\* C3 (amended): after every operation on an initialised pool, TickCurrent is
\* getTickAtSqrtRatio(SqrtPriceX96), or it is one less and SqrtPriceX96 is
\* exactly the price of tick TickCurrent + 1 (where a zeroForOne swap leaves
\* the pool that stopped on a tick boundary).
C3_TickMatchesPriceOrBoundary ==
    pool.SqrtPriceX96 # 0 =>
        \/ pool.TickCurrent = GetTickAtSqrtRatio(pool.SqrtPriceX96).v
        \/ /\ pool.TickCurrent + 1 = GetTickAtSqrtRatio(pool.SqrtPriceX96).v
           /\ pool.SqrtPriceX96 = GetSqrtRatioAtTick(pool.TickCurrent + 1).v

\* C3 witness: a committed zeroForOne swap crossed an initialised tick and
\* stopped exactly on its price
C3_Witness ==
    /\ last.op = "HandleSwap" /\ last.err = OK /\ ~last.isStatic /\ last.zeroForOne
    /\ last.crossings > 0
    /\ pool.SqrtPriceX96 = GetSqrtRatioAtTick(pool.TickCurrent + 1).v

\* C4: a HandleSwap call with isStatic = TRUE leaves the whole pool as it
\* was, whether it returns a result or an error.
C4_StaticSwapLeavesPool ==
    [][(last'.op = "HandleSwap" /\ last'.isStatic) => pool' = pool]_vars

\* C4 witness: a static swap that returned a result after crossing an
\* initialised tick with fees accrued on the way
C4_Witness ==
    /\ last.op = "HandleSwap" /\ last.err = OK /\ last.isStatic
    /\ last.crossings > 0
    /\ last.sqrtPriceX96 # pool.SqrtPriceX96
    /\ last.amount0 # 0

\* C5: a HandleSwap call that returns without error has consumed the whole
\* specified amount or returns exactly the effective price limit.
C5_ExactTermination ==
    (last.op = "HandleSwap" /\ last.err = OK) =>
        (last.remaining = 0 \/ last.sqrtPriceX96 = last.limit)


\* the iteration cap of a copy of HandleSwap
CapOf(copy) == IF copy = "tolerant" THEN maxIterations ELSE maxLoopCount

\* C6: in each copy, a swap whose loop exceeds the iteration cap fails with
\* SwapNonTerminating instead of returning amounts and a price.
C6_CapIsAnError ==
    (last.op = "HandleSwap" /\ last.passes > CapOf(variant))
        => last.err = "SwapNonTerminating"

\* C7: a swap that takes one loop step per initialised tick on its path is
\* never cut short nor failed by the iteration cap, however many ticks there are.
C7_CapCoversTicks ==
    (last.op = "HandleSwap" /\ last.steps = last.crossings)
        => (last.passes <= CapOf(variant) /\ last.err # "SwapNonTerminating")

\* the tokens of a slice
TokenSet(tokens) == {tokens[i] : i \in 1..Len(tokens)}

\* C8: whatever events succeeded or failed, tokenId is in OwnerTokens[a] if and
\* only if Positions[tokenId] exists with Owner = a, and tokenId is in
\* PoolTokens[p] if and only if Positions[tokenId] exists with Pool = p.
C8_IndicesAreInverses ==
    \A t \in TokenIDs :
        /\ \A a \in Holders \cup {ZeroAddress} :
             (t \in TokenSet(TokensOf(ledger.OwnerTokens, a)))
                 <=> (t \in DOMAIN ledger.Positions /\ ledger.Positions[t].Owner = a)
        /\ \A q \in PoolAddresses :
             (t \in TokenSet(TokensOf(ledger.PoolTokens, q)))
                 <=> (t \in DOMAIN ledger.Positions /\ ledger.Positions[t].Pool = q)

\* the fees of §4.3 for a snapshot: the wrapped difference, rounded down
AccruedFees(feeGrowthInsideX128, feeGrowthInsideLastX128, liquidity) ==
    RoundDownDiv(SubMod256(feeGrowthInsideX128, feeGrowthInsideLastX128) * liquidity, Q128)

\* what C9 says of the position after a DecreaseLiquidity event with the
\* snapshot fgi
DecreasedAsSpecified(before, after, fgi, liquidity, amount0, amount1) ==
    /\ after.Liquidity = before.Liquidity - liquidity
    /\ after.TokensOwed0 = before.TokensOwed0 + amount0
           + AccruedFees(fgi.fgi0, before.FeeGrowthInside0LastX128, before.Liquidity)
    /\ after.TokensOwed1 = before.TokensOwed1 + amount1
           + AccruedFees(fgi.fgi1, before.FeeGrowthInside1LastX128, before.Liquidity)
    /\ after.FeeGrowthInside0LastX128 = fgi.fgi0
    /\ after.FeeGrowthInside1LastX128 = fgi.fgi1

\* C9: a DecreaseLiquidity event for an existing position with
\* 0 < liquidity <= position.Liquidity succeeds, reduces the position's
\* liquidity by exactly liquidity, adds amount0/amount1 and the accrued fees to
\* TokensOwed0/1 and sets FeeGrowthInside0/1LastX128 to the new snapshot.
C9_DecreaseSucceeds ==
    [][(/\ last'.op = "NFTDecreaseLiquidity"
        /\ last'.tokenId \in DOMAIN ledger.Positions
        /\ 0 < last'.liquidity
        /\ last'.liquidity <= ledger.Positions[last'.tokenId].Liquidity)
       => /\ last'.err = OK
          /\ DecreasedAsSpecified(
                 ledger.Positions[last'.tokenId], ledger'.Positions[last'.tokenId],
                 Snapshot(GetPool(pool, ledger.Positions[last'.tokenId].Pool).pool,
                          ledger.Positions[last'.tokenId].TickLower,
                          ledger.Positions[last'.tokenId].TickUpper),
                 last'.liquidity, last'.amount0, last'.amount1)]_vars

\* C10: TokensOwed0 and TokensOwed1 of a position never decrease in a step,
\* whatever snapshot the pool supplies, unless the step is a Collect of that
\* same tokenId.
C10_TokensOwedMonotone ==
    [][\A t \in DOMAIN ledger.Positions :
          \/ last'.op = "NFTCollect" /\ last'.tokenId = t
          \/ /\ ledger'.Positions[t].TokensOwed0 >= ledger.Positions[t].TokensOwed0
             /\ ledger'.Positions[t].TokensOwed1 >= ledger.Positions[t].TokensOwed1]_vars

\* the event and the solution of the last resolver call
LastEvent == UniV3SwapEvent(last.amount0, last.amount1, last.sqrtPriceX96, last.liquidity)

\* a static swap of the copy with these inputs returns exactly the event's
\* amount0, amount1 and sqrtPriceX96
Reproduces(copy, p, param, amountSpecified, optionalLimit) ==
    dryRunMatches(HandleSwap(copy, p, param.Amount0 > 0, amountSpecified,
                             optionalLimit, TRUE), param)

\* some candidate the specification lists reproduces the event
SomeCandidateReproduces(copy, p, param) ==
    \E amountSpecified \in {param.Amount0, param.Amount1,
                            incTowardsInfinity(param.Amount0),
                            incTowardsInfinity(param.Amount1)},
       optionalLimit \in {NoLimit, param.SqrtPriceX96} :
        Reproduces(copy, p, param, amountSpecified, optionalLimit)

\* C11: in each copy, the resolver returns a solution only if a static swap
\* with it on the current pool returns exactly the event's amount0, amount1 and
\* sqrtPriceX96, and it fails when no candidate reproduces the event.
C11_SolutionsAreExact ==
    last.op = "Resolve" =>
        /\ last.err = OK =>
             Reproduces(variant, pool, LastEvent, last.amountSpecified, last.limit)
        /\ ~SomeCandidateReproduces(variant, pool, LastEvent) => last.err # OK

\* C12: in each copy, whenever (amountSpecified = amount0, no price limit)
\* reproduces the event, the resolver returns exactly that pair.
C12_UnlimitedAmount0First ==
    (last.op = "Resolve" /\ Reproduces(variant, pool, LastEvent, last.amount0, NoLimit))
        => (last.err = OK /\ last.amountSpecified = last.amount0 /\ last.limit = NoLimit)

\* the logs of the NFT manager that a step has processed
ProcessedLogs ==
    {i \in 1..Len(chain) : /\ chain[i].source = "nft"
                           /\ events <= LogsBefore(chain, "nft", i)
                           /\ LogsBefore(chain, "nft", i) < events'}

\* C13: when SyncEvents processes an event of the NFT manager, the pool it
\* takes the fee-growth snapshot from has replayed exactly the pool's logs
\* that precede the event in the chain, no fewer and no more
C13_SnapshotAtLogPosition ==
    [][last'.op = "SyncEvents" =>
          \A i \in ProcessedLogs : LogsBefore(chain, "pool", i) = ops]_vars

C15_PositionRangeIsFixed ==
    [][\A tokenID \in DOMAIN ledger.Positions :
           /\ tokenID \in DOMAIN ledger'.Positions
           /\ ledger'.Positions[tokenID].Pool = ledger.Positions[tokenID].Pool
           /\ ledger'.Positions[tokenID].TickLower = ledger.Positions[tokenID].TickLower
           /\ ledger'.Positions[tokenID].TickUpper = ledger.Positions[tokenID].TickUpper
           /\ ledger'.Positions[tokenID].Owner # ledger.Positions[tokenID].Owner
                  => last'.op = "NFTTransfer"]_vars

\* a Mint of a token id that has a position, with another owner, pool and
\* range, has succeeded
C15_Witness ==
    /\ last.op = "NFTMint"
    /\ last.err = OK
    /\ last.tokenId \in DOMAIN ledger.Positions
    /\ ledger.Positions[last.tokenId].Owner # last.owner
    /\ ledger.Positions[last.tokenId].Pool # last.poolAddress
    /\ ledger.Positions[last.tokenId].TickLower # last.tickLower

\* the token ids in index[key]
Held(index, key) == TokenSet(TokensOf(index, key))

\* a Transfer between two holders of a token id whose position is owned by
\* the sender
TransferByOwner ==
    /\ last'.op = "NFTTransfer"
    /\ last'.from # ZeroAddress
    /\ last'.to # ZeroAddress
    /\ last'.from # last'.to
    /\ last'.tokenId \in DOMAIN ledger.Positions
    /\ ledger.Positions[last'.tokenId].Owner = last'.from

\* what the Transfer of tokenID from one holder to another leaves
Transferred(before, after, tokenID, from, to) ==
    /\ tokenID \notin Held(after.OwnerTokens, from)
    /\ tokenID \in Held(after.OwnerTokens, to)
    /\ Held(before.OwnerTokens, from) \ {tokenID} \subseteq Held(after.OwnerTokens, from)
    /\ after.Positions[tokenID] = [before.Positions[tokenID] EXCEPT !.Owner = to]

\* C16: a Transfer(tokenId, A, B) between two non-zero addresses, applied when
\* A owns the position, succeeds; afterwards tokenId is not in OwnerTokens[A]
\* and is in OwnerTokens[B], the owner is B, the other token ids of A are
\* still in OwnerTokens[A] and the rest of the position is as it was
C16_TransferMovesToken ==
    [][TransferByOwner =>
          /\ last'.err = OK
          /\ Transferred(ledger, ledger', last'.tokenId, last'.from, last'.to)]_vars

\* C17: a Transfer whose from or to is the zero address returns no error and
\* leaves Positions, OwnerTokens and PoolTokens as they were, whether or not
\* the token id has a position
C17_ZeroAddressTransferIsNoOp ==
    [][(last'.op = "NFTTransfer" /\ (last'.from = ZeroAddress \/ last'.to = ZeroAddress))
          => (last'.err = OK /\ ledger' = ledger)]_vars

\* the owner of a position has sent its token to the zero address
C17_Witness ==
    /\ last.op = "NFTTransfer"
    /\ last.to = ZeroAddress
    /\ last.tokenId \in DOMAIN ledger.Positions
    /\ ledger.Positions[last.tokenId].Owner = last.from

\* C18: a Mint followed at once by the Burn of the same liquidity and a
\* Collect of everything owed leaves SqrtPriceX96, TickCurrent and Liquidity
\* of the pool as they were before the Mint
C18_RoundTripRestoresPool ==
    [][(last'.op = "RoundTrip" /\ last'.err = OK) =>
          /\ pool'.SqrtPriceX96 = pool.SqrtPriceX96
          /\ pool'.TickCurrent = pool.TickCurrent
          /\ pool'.Liquidity = pool.Liquidity]_vars

\* a round trip over a range that holds the current tick, in a pool that has
\* liquidity and has seen a swap
C18_Witness ==
    /\ last.op = "RoundTrip"
    /\ last.err = OK
    /\ last.tickLower <= pool.TickCurrent
    /\ pool.TickCurrent < last.tickUpper
    /\ pool.Liquidity > 0
    /\ pool.FeeGrowthGlobal0X128 + pool.FeeGrowthGlobal1X128 > 0

\* what the Collect of a round trip pays out beyond what the position was
\* owed when the Mint was done
GivenBack0 == last.collected0 - last.owed0
GivenBack1 == last.collected1 - last.owed1

LedgerLiquidity(tpm, tokenID) ==
    IF tokenID \in DOMAIN tpm.Positions THEN tpm.Positions[tokenID].Liquidity ELSE 0

\* the processed logs that add liquidity to token 1: a Mint in a pool the
\* simulator has, and an IncreaseLiquidity that finds the position, there
\* before the call or made by an earlier Mint of the same call
AddingLogs ==
    {i \in ProcessedLogs :
        \/ chain[i].op = "Mint" /\ chain[i].address \in PoolAddresses
        \/ /\ chain[i].op = "IncreaseLiquidity"
           /\ \/ 1 \in DOMAIN ledger.Positions
              \/ \E j \in ProcessedLogs :
                    j < i /\ chain[j].op = "Mint" /\ chain[j].address \in PoolAddresses}

\* C21: SyncEvents applies every log it fetched once and in the order of the
\* logs; an event whose handler fails is skipped, the events after it are
\* still applied, and SyncEvents returns no error
C21_EveryLogAppliedOnce ==
    [][last'.op = "SyncEvents" =>
          /\ last'.err = OK
          /\ events' = events + Cardinality(ProcessedLogs)
          /\ LedgerLiquidity(ledger', 1) =
                 LedgerLiquidity(ledger, 1) + 1000 * Cardinality(AddingLogs)]_vars

\* SyncEvents has applied a Mint after events of the same call that failed:
\* an IncreaseLiquidity without a position and a Mint in an unknown pool
C21_Witness ==
    /\ last.op = "SyncEvents"
    /\ events = 3
    /\ \A i \in 3..5 : chain[i].source = "nft" /\ chain[i].block = chain[3].block
    /\ chain[3].op = "IncreaseLiquidity"
    /\ chain[4].op = "Mint" /\ chain[4].address = "p3"
    /\ chain[5].op = "Mint" /\ chain[5].address = "p1"
    /\ LedgerLiquidity(ledger, 1) = 1000

\* the limits a swap of the pool may run with
LimitAllowed(p, zeroForOne, limit) ==
    IF zeroForOne THEN MIN_SQRT_RATIO < limit /\ limit < p.SqrtPriceX96
    ELSE p.SqrtPriceX96 < limit /\ limit < MAX_SQRT_RATIO

LimitOf(call) ==
    IF call.optionalLimit = NoLimit
    THEN IF call.zeroForOne THEN MIN_SQRT_RATIO + 1 ELSE MAX_SQRT_RATIO - 1
    ELSE call.optionalLimit

LimitRejected(call) == call.err \in {"PriceLimitOutOfRange", "PriceLimitWrongSide"}

C23_InitializeOnce ==
    [][/\ last'.op = "Initialize" /\ last'.err = OK =>
             /\ pool.SqrtPriceX96 = 0
             /\ pool'.SqrtPriceX96 = last'.price
             /\ pool'.TickCurrent = GetTickAtSqrtRatio(last'.price).v
       /\ last'.op = "Initialize" /\ pool.SqrtPriceX96 # 0 =>
             /\ last'.err # OK
             /\ pool'.SqrtPriceX96 = pool.SqrtPriceX96
             /\ pool'.TickCurrent = pool.TickCurrent
       /\ pool.SqrtPriceX96 = 0 /\ pool'.SqrtPriceX96 # 0 =>
             last'.op = "Initialize" /\ last'.err = OK
       /\ pool.SqrtPriceX96 # 0 => pool'.SqrtPriceX96 # 0]_vars

\* an Initialize refused by a pool that a swap has moved off its first price
C23_Witness ==
    /\ last.op = "Initialize" /\ last.err = "AlreadyInitialized"
    /\ pool.SqrtPriceX96 \notin {0, last.price}
    /\ pool.TickCurrent # GetTickAtSqrtRatio(last.price).v

\* scenario S4 at the model's tick spacing: the pool stands at the price of
\* tick 0 and its only liquidity is over [-TickSpacing, TickSpacing]
SingleRangePool ==
    /\ pool.SqrtPriceX96 = GetSqrtRatioAtTick(0).v /\ pool.TickCurrent = 0
    /\ DOMAIN pool.Ticks = {-TickSpacing, TickSpacing}
    /\ pool.Liquidity > 0

\* a non-static zeroForOne exact-input swap that used up the range: it crossed
\* the lower boundary
ExhaustingSwap(call) ==
    /\ call.op = "HandleSwap" /\ call.zeroForOne /\ ~call.isStatic
    /\ call.amountSpecified > 0 /\ call.crossings >= 1

MintLower(call) == GetSqrtRatioAtTick(call.tickLower).v
MintUpper(call) == GetSqrtRatioAtTick(call.tickUpper).v

\* C25: a successful Mint over [lo, hi) adds exactly its amount to
\* pool.Liquidity when lo <= TickCurrent < hi and returns both token amounts
\* against the current price; when TickCurrent < lo it returns amount1 = 0,
\* when TickCurrent >= hi it returns amount0 = 0, and in both it leaves
\* pool.Liquidity as it was.
C25_MintAmountsFollowTick ==
    [][last'.op = "Mint" /\ last'.err = OK =>
          IF pool.TickCurrent < last'.tickLower
          THEN /\ pool'.Liquidity = pool.Liquidity
               /\ last'.amount1 = 0
               /\ last'.amount0
                     = GetAmount0Delta(MintLower(last'), MintUpper(last'), last'.liquidity).v
          ELSE IF pool.TickCurrent < last'.tickUpper
          THEN /\ pool'.Liquidity = pool.Liquidity + last'.liquidity
               /\ last'.amount0
                     = GetAmount0Delta(pool.SqrtPriceX96, MintUpper(last'), last'.liquidity).v
               /\ last'.amount1
                     = GetAmount1Delta(MintLower(last'), pool.SqrtPriceX96, last'.liquidity).v
          ELSE /\ pool'.Liquidity = pool.Liquidity
               /\ last'.amount0 = 0
               /\ last'.amount1
                     = GetAmount1Delta(MintLower(last'), MintUpper(last'), last'.liquidity).v]_vars

\* a Mint over a range above the current tick, paid in token0 only
C25_Witness ==
    /\ last.op = "Mint" /\ last.err = OK
    /\ pool.TickCurrent < last.tickLower
    /\ last.amount0 > 0 /\ last.amount1 = 0
    /\ pool.Liquidity = 0 /\ pool.Ticks[last.tickLower].LiquidityGross = last.liquidity

\* C26: a Mint with amount <= 0 is rejected with an error and leaves the pool,
\* its tick map and its position store as they were: no tick and no position
\* is created.
C26_MintOfNothingIsRejected ==
    [][last'.op = "Mint" /\ last'.liquidity <= 0 =>
          /\ last'.err = "MintAmountNotPositive"
          /\ last'.amount0 = 0 /\ last'.amount1 = 0
          /\ pool' = pool]_vars

\* the Mint of amount 0 refused by an initialised pool that has no tick and no
\* position
C26_Witness ==
    /\ last.op = "Mint" /\ last.liquidity = 0 /\ last.err = "MintAmountNotPositive"
    /\ pool.SqrtPriceX96 # 0
    /\ DOMAIN pool.Ticks = {} /\ DOMAIN pool.Positions = {}

\* the liquidity of the position a Burn call names, 0 when there is none
BurnedPosition(p, call) ==
    GetPositionReadonly(p.Positions, call.owner, call.tickLower, call.tickUpper).Liquidity

\* C27: a Burn of more than the position's liquidity, the position that does
\* not exist included, fails with the liquidity-underflow error and leaves the
\* pool's fields, every tick and the position store as they were: no tick is
\* updated and no empty position is created.
C27_BurnUnderflowLeavesPool ==
    [][last'.op = "Burn" /\ last'.liquidity > BurnedPosition(pool, last') =>
          /\ last'.err = "LiquidityUnderflow"
          /\ last'.amount0 = 0 /\ last'.amount1 = 0
          /\ pool' = pool]_vars

\* the refused Burn of a position that does not exist, in a pool that has
\* another one
C27_Witness ==
    /\ last.op = "Burn" /\ last.err = "LiquidityUnderflow"
    /\ GetPositionKey(last.owner, last.tickLower, last.tickUpper) \notin DOMAIN pool.Positions
    /\ last.tickLower \notin DOMAIN pool.Ticks
    /\ pool.Liquidity > 0

\* C28: a Transfer rejected because the position's owner is not `from` leaves
\* the ledger as it was: the position still has its previous owner and
\* OwnerTokens is unchanged.
C28_RejectedTransferLeavesLedger ==
    [][last'.op = "NFTTransfer" /\ last'.err = "OwnershipMismatch" =>
          /\ ledger'.Positions[last'.tokenId].Owner = ledger.Positions[last'.tokenId].Owner
          /\ ledger'.OwnerTokens = ledger.OwnerTokens
          /\ ledger' = ledger]_vars

\* C29: a non-static HandleSwap that returns an error leaves the whole pool as
\* it was, the feeGrowthOutside of the ticks it had crossed before failing
\* included.
C29_FailedSwapLeavesPool ==
    [][last'.op = "HandleSwap" /\ ~last'.isStatic /\ last'.err # OK => pool' = pool]_vars

\* C30: a Mint that fails after its validation, as when the upper tick's
\* liquidityGross would exceed MaxLiquidityPerTick, leaves the pool as it was:
\* the lower tick's liquidityGross and liquidityNet are not modified, no tick
\* without liquidity is left in the tick map and no position is created.
C30_FailedMintLeavesPool ==
    [][/\ last'.op = "Mint" /\ last'.liquidity > 0
       /\ checkTicks(last'.tickLower, last'.tickUpper) = OK
       /\ last'.err # OK
       => /\ pool'.Ticks = pool.Ticks
          /\ pool'.Positions = pool.Positions
          /\ pool' = pool]_vars

\* C31: an NFT Mint event that is rejected for a tokenId that has no position
\* leaves the ledger as it was: no position is created and nothing is added
\* to OwnerTokens or PoolTokens.
C31_RejectedMintLeavesLedger ==
    [][/\ last'.op = "NFTMint" /\ last'.err # OK
       /\ last'.tokenId \notin DOMAIN ledger.Positions
       => /\ last'.tokenId \notin DOMAIN ledger'.Positions
          /\ ledger'.OwnerTokens = ledger.OwnerTokens
          /\ ledger'.PoolTokens = ledger.PoolTokens
          /\ ledger' = ledger]_vars

\* the events that need a position: every event but Mint, and of the
\* Transfers those between two holders
NeedsPosition(call) ==
    \/ call.op \in {"NFTIncreaseLiquidity", "NFTDecreaseLiquidity", "NFTCollect"}
    \/ call.op = "NFTTransfer" /\ call.from # ZeroAddress /\ call.to # ZeroAddress

\* C32: IncreaseLiquidity, DecreaseLiquidity, Collect and Transfer (with
\* non-zero from and to) for a tokenId that has no position fail with the
\* position-not-found error and leave Positions, OwnerTokens and PoolTokens as
\* they were; only Mint creates a position.
C32_OnlyMintCreatesPosition ==
    [][/\ NeedsPosition(last') /\ last'.tokenId \notin DOMAIN ledger.Positions =>
             /\ last'.err = "PositionNotFound"
             /\ ledger' = ledger
       /\ DOMAIN ledger'.Positions # DOMAIN ledger.Positions => last'.op = "NFTMint"]_vars

\* a Collect refused for a token id without position by a ledger that holds
\* another position
C32_Witness ==
    /\ last.op = "NFTCollect" /\ last.err = "PositionNotFound"
    /\ last.tokenId \notin DOMAIN ledger.Positions
    /\ DOMAIN ledger.Positions # {}

\* what HandleCollect returns for the Collect event of the call, on the ledger
\* the event found
Collected(tpm, call) == HandleCollect(tpm, call.tokenId, call.amount0, call.amount1)

\* C33: HandleCollect on an existing position with non-negative requested
\* amounts returns min(requested, TokensOwed) of each token, lowers TokensOwed
\* by exactly what it returns and never below 0, and leaves the position's
\* other fields and both indices as they were.
C33_CollectPaysWhatIsOwed ==
    [][/\ last'.op = "NFTCollect" /\ last'.tokenId \in DOMAIN ledger.Positions
       /\ last'.amount0 >= 0 /\ last'.amount1 >= 0
       => /\ last'.err = OK /\ Collected(ledger, last').err = OK
          /\ Collected(ledger, last').amount0
                = Min(last'.amount0, ledger.Positions[last'.tokenId].TokensOwed0)
          /\ Collected(ledger, last').amount1
                = Min(last'.amount1, ledger.Positions[last'.tokenId].TokensOwed1)
          /\ ledger' = [ledger EXCEPT
                 !.Positions[last'.tokenId].TokensOwed0 = @ - Collected(ledger, last').amount0,
                 !.Positions[last'.tokenId].TokensOwed1 = @ - Collected(ledger, last').amount1]
          /\ ledger'.Positions[last'.tokenId].TokensOwed0 >= 0
          /\ ledger'.Positions[last'.tokenId].TokensOwed1 >= 0]_vars

\* a Collect of 1 of token0 and of all of token1, from a position that was
\* owed 2 of token0
C33_Witness ==
    /\ last.op = "NFTCollect" /\ last.err = OK
    /\ last.amount0 = 1 /\ last.amount1 = MaxUint128 /\ events = 1
    /\ last.tokenId \in DOMAIN ledger.Positions
    /\ ledger.Positions[last.tokenId].TokensOwed0 = 1
    /\ ledger.Positions[last.tokenId].TokensOwed1 = 0
    /\ ledger.Positions[last.tokenId].FeeGrowthInside1LastX128 > 0

\* the snapshot an event of the position takes from the position's pool
SnapshotOf(p, position) ==
    Snapshot(GetPool(p, position.Pool).pool, position.TickLower, position.TickUpper)

\* the fee of one token in the 256-bit unsigned domain
WrappedFee(feeGrowthInsideX128, position, feeGrowthInsideLastX128) ==
    MulDiv(SubMod256(feeGrowthInsideX128, feeGrowthInsideLastX128), position.Liquidity, Q128)

\* C34: the fee an NFT position accrues on IncreaseLiquidity or
\* DecreaseLiquidity is floor(((feeGrowthInside - feeGrowthInsideLast) mod
\* 2^256) * liquidity / 2^128) of each token: a snapshot smaller than the
\* stored one wraps instead of giving a negative fee.
C34_AccrualWraps ==
    [][/\ last'.op \in {"NFTIncreaseLiquidity", "NFTDecreaseLiquidity"}
       /\ last'.err = OK
       => /\ ledger'.Positions[last'.tokenId].TokensOwed0
               - ledger.Positions[last'.tokenId].TokensOwed0
               - (IF last'.op = "NFTDecreaseLiquidity" THEN last'.amount0 ELSE 0)
             = WrappedFee(SnapshotOf(pool, ledger.Positions[last'.tokenId]).fgi0,
                          ledger.Positions[last'.tokenId],
                          ledger.Positions[last'.tokenId].FeeGrowthInside0LastX128)
          /\ ledger'.Positions[last'.tokenId].TokensOwed1
               - ledger.Positions[last'.tokenId].TokensOwed1
               - (IF last'.op = "NFTDecreaseLiquidity" THEN last'.amount1 ELSE 0)
             = WrappedFee(SnapshotOf(pool, ledger.Positions[last'.tokenId]).fgi1,
                          ledger.Positions[last'.tokenId],
                          ledger.Positions[last'.tokenId].FeeGrowthInside1LastX128)]_vars

\* C35: every division in fee accounting is an exact integer floor: the fee
\* growth of a swap step is floor(feeAmount * 2^128 / liquidity) and the
\* fee an NFT position accrues is floor(delta * liquidity / 2^128), never
\* one unit above it.
C35_FeeDivisionsAreFloors ==
    /\ last.op = "feeGrowthDelta" => last.amount1 = (last.amount0 * Q128) \div last.liquidity
    /\ last.op = "tokenFees" => last.amount1 = (last.amount0 * last.liquidity) \div Q128


\* the tick whose price equals the price limit of the swap
LimitTick == (last'.limit - SqrtRatioBase) \div SqrtRatioStep

\* a swap that changed the pool, went up to its price limit and crossed only
\* the tick there, initialised with liquidityNet 0
CrossedBalancedTick ==
    /\ last'.op = "HandleSwap"
    /\ last'.err = OK
    /\ ~last'.isStatic
    /\ last'.crossings = 1
    /\ last'.sqrtPriceX96 = last'.limit
    /\ GetSqrtRatioAtTick(LimitTick).v = last'.limit
    /\ LimitTick \in DOMAIN pool.Ticks
    /\ pool.Ticks[LimitTick].LiquidityNet = 0

OtherSwap ==
    HandleSwap(variant, pool, last'.zeroForOne, last'.amountSpecified,
               last'.optionalLimit, ~last'.isStatic)

\* the static and the real swap fail together or return the same triple
SwapsAgree ==
    /\ (OtherSwap.err = OK) = (last'.err = OK)
    /\ last'.err = OK => /\ OtherSwap.amount0 = last'.amount0
                         /\ OtherSwap.amount1 = last'.amount1
                         /\ OtherSwap.sqrtPriceX96 = last'.sqrtPriceX96

\* the real swap with the solution the resolver returned
SolutionSwap ==
    HandleSwap(variant, pool', last'.zeroForOne, last'.amountSpecified, last'.limit, FALSE)

\* C37: from the same pool and with the same arguments a static and a
\* non-static HandleSwap return the same amount0, amount1 and sqrtPrice or
\* both fail, and the real swap with the pair the resolver returned gives
\* the amounts and the final price of the observed event.
C37_StaticSwapPredictsRealSwap ==
    [][/\ last'.op = "HandleSwap" => SwapsAgree
       /\ (last'.op = "Resolve" /\ last'.err = OK)
            => /\ SolutionSwap.err = OK
               /\ SolutionSwap.amount0 = last'.amount0
               /\ SolutionSwap.amount1 = last'.amount1
               /\ SolutionSwap.sqrtPriceX96 = last'.sqrtPriceX96]_vars


\* the places of an index, a key and a position in its list, that hold tokenID
Occurrences(index, tokenID) ==
    {place \in UNION {{<<key, i>> : i \in 1..Len(index[key])} : key \in DOMAIN index} :
        index[place[1]][place[2]] = tokenID}

\* C38: in every reachable state of the ledger each tokenId that has a
\* position occurs exactly once in the OwnerTokens lists taken together and
\* exactly once in the PoolTokens lists taken together.
C38_TokenIndexedOnce ==
    \A tokenID \in DOMAIN ledger.Positions :
        /\ Cardinality(Occurrences(ledger.OwnerTokens, tokenID)) = 1
        /\ Cardinality(Occurrences(ledger.PoolTokens, tokenID)) = 1


\* C39: while the pool is uninitialised (SqrtPriceX96 = 0) it holds no
\* liquidity: the tick map is empty, no position has liquidity and
\* pool.Liquidity = 0.
C39_UninitializedPoolIsEmpty ==
    pool.SqrtPriceX96 = 0 =>
        /\ DOMAIN pool.Ticks = {}
        /\ \A key \in DOMAIN pool.Positions : pool.Positions[key].Liquidity = 0
        /\ pool.Liquidity = 0

====
